---- MODULE Spec2Model ----
(***************************************************************************)
(* A model of the classification-and-resolution pipeline of qops-checks:   *)
(* the classifier chain (yaml_agent/identifier_extractor.py), the          *)
(* insertion path (yaml_agent/dependency_finder.py), the type catalog      *)
(* (knowledge_base.py, schema_inferer.py), the reference graph builder     *)
(* (yaml_agent/graph_builder.py) and the run loop of cli.analyze.          *)
(***************************************************************************)
EXTENDS Integers, Sequences, FiniteSets, TLC

VARIABLES
    pc,             \* position of analyze(): "start" | "idle" (between apps) |
                    \* "unit" (in the loop over an app's files) | "done" |
                    \* "exit" (no app found) | "crashed" (uncaught exception)
    units_done,     \* number of app folders whose loop body has run
    docs_done,      \* number of YAML files handed to process_yaml_file in the run
    app_name,       \* basename of the app folder being processed
    repo,           \* the per-app Repository.objects (insertion-ordered)
    kb,             \* the per-app KnowledgeBase: [path, open]
    stores,         \* kb.sqlite3 files on disk: store path -> rows of object_types
    G,              \* the per-app graph built last
    aggregate_repo, \* aggregate Repository.objects
    aggregate_graph_nodes, \* list of (node, attrs) collected over the apps
    aggregate_graph_edges, \* list of (u, v) collected over the apps
    AggG,           \* the aggregate graph
    fuzzy_enabled,  \* whether SentenceTransformer loads in this environment
    sim,            \* the embedding model: cosine similarity of two field texts
    app_folders,    \* discover_app_folders(root_dir), as the folders' basenames
    aggregate_kb,   \* the aggregate KnowledgeBase: [path, open]
    last,           \* the most recent operation with its inputs and outputs
    prev            \* the operation before it

vars == <<pc, units_done, docs_done, app_name, repo, kb, stores, G,
          aggregate_repo, aggregate_graph_nodes, aggregate_graph_edges, AggG,
          fuzzy_enabled, sim, app_folders, aggregate_kb, last, prev>>

(***************************************************************************)
(* Bounds of the model.                                                    *)
(***************************************************************************)
MaxMeasures == 2
MaxUnits == 2
MaxDocs == 3
MaxResolves == 3
MaxSuffix == 7
MaxAdds == 3

(***************************************************************************)
(* Python values.  A YAML node is a tagged value: a dict ("map", v a       *)
(* function on its keys), a list ("list", v a sequence), a string ("str")  *)
(* or None ("null").  "raise" stands for an exception leaving the call     *)
(* (every exception met here is an AttributeError), "bool" for a Python    *)
(* bool returned by a predicate that may also raise.                       *)
(***************************************************************************)
Str(s) == [t |-> "str", v |-> s]
None == [t |-> "null", v |-> ""]
Map(f) == [t |-> "map", v |-> f]
List(s) == [t |-> "list", v |-> s]
Bool(b) == [t |-> "bool", v |-> b]
Raise == [t |-> "raise", v |-> "AttributeError"]
Absent == [t |-> "absent", v |-> ""]
EmptyMap == Map([k \in {} |-> None])
EmptyList == List(<<>>)

IsRaise(x) == x.t = "raise"
IsDict(x) == x.t = "map"
IsList(x) == x.t = "list"
IsStr(x) == x.t = "str"

\* A dict literal from a set of <<key, value>> pairs; a key whose value is
\* Absent is left out.
MapOf(kv) ==
    LET present == {p \in kv : p[2].t # "absent"}
    IN  Map([k \in {p[1] : p \in present} |-> (CHOOSE p \in present : p[1] = k)[2]])

\* bool(x)
Truthy(x) ==
    CASE x.t = "null" -> FALSE
      [] x.t = "str"  -> x.v # ""
      [] x.t = "map"  -> DOMAIN x.v # {}
      [] x.t = "list" -> Len(x.v) > 0
      [] x.t = "bool" -> x.v
      [] OTHER        -> TRUE

\* a or b (both already evaluated; neither raises here)
Or(a, b) == IF Truthy(a) THEN a ELSE b

\* d.get(k, default): only a dict has .get
PyGet(d, k, default) ==
    IF d.t = "map"
    THEN IF k \in DOMAIN d.v THEN d.v[k] ELSE default
    ELSE Raise

\* k in x: a key of a dict, an element of a list, a substring of a string.
\* No scalar string of the modelled documents contains a key name.
PyIn(k, x) ==
    CASE x.t = "map"  -> k \in DOMAIN x.v
      [] x.t = "list" -> \E i \in 1..Len(x.v) : x.v[i] = Str(k)
      [] OTHER        -> FALSE

\* x == "s" / x in (s1, s2, ...) for string constants
StrIn(x, S) == x.t = "str" /\ x.v \in S

\* list(d.keys()); key order is not modelled, the keys are kept as a set.
\* Only a dict has .keys: the caller checks IsDict first.
Keys(d) == DOMAIN d.v

(***************************************************************************)
(* File paths: [dir, base] are the last directory component and the file   *)
(* name.  str.lower, str.capitalize, os.path.splitext and str.startswith   *)
(* are given on the strings the model uses.                                *)
(***************************************************************************)
Lower(s) ==
    CASE s = "Variables"        -> "variables"
      [] s = "Measures"         -> "measures"
      [] s = "Measure.yaml"     -> "measure.yaml"
      [] s = "MasterObject.yaml" -> "masterobject.yaml"
      [] s = "Title"            -> "title"
      [] s = "qDef"             -> "qdef"
      [] s = "qMeasure"         -> "qmeasure"
      [] s = "qDim"             -> "qdim"
      [] s = "qInfo"            -> "qinfo"
      [] s = "qHyperCubeDef"    -> "qhypercubedef"
      [] s = "qDefinition"      -> "qdefinition"
      [] s = "qGrouping"        -> "qgrouping"
      [] OTHER                  -> s

Capitalize(s) ==
    CASE s = "variables" -> "Variables"
      [] s = "measures"  -> "Measures"
      [] OTHER           -> s

Stem(base) ==
    CASE base = "Measure.yaml"      -> "Measure"
      [] base = "MasterObject.yaml" -> "MasterObject"
      [] base = "widget.yaml"       -> "widget"
      [] base = "dimension.yaml"    -> "dimension"
      [] base = "sheet.yaml"        -> "sheet"
      [] base = "App.yaml"          -> "App"
      [] OTHER                      -> base

StartsWithVizlib(s) == s \in {"VizlibTable"}

basename(file_path) == file_path.base
parent_dir_name(file_path) == file_path.dir

(***************************************************************************)
(* identifier_extractor.py: the predicates of the classifier chain.        *)
(* Each returns Bool(b), or Raise when the Python raises.                  *)
(***************************************************************************)
MASTER_MEASURE_QTYPES == {"measure", "mastermeasure", "masterobject"}
WIDGET_QTYPES == {"visualization", "object"}

_get_qinfo(yaml_dict) ==
    IF IsDict(PyGet(yaml_dict, "qInfo", None))
    THEN yaml_dict.v["qInfo"]
    ELSE LET props == Or(PyGet(yaml_dict, "Properties", EmptyMap), EmptyMap)
         IN  IF ~IsDict(props) THEN Raise            \* props.get on a non-dict
             ELSE IF IsDict(PyGet(props, "qInfo", None))
                  THEN props.v["qInfo"]
                  ELSE EmptyMap

is_dimension(yaml_dict) ==
    LET qi == _get_qinfo(yaml_dict)
    IN  IF IsRaise(qi) THEN Raise
        ELSE IF ~StrIn(PyGet(qi, "qType", None), {"dimension"}) THEN Bool(FALSE)
        ELSE LET props == Or(PyGet(yaml_dict, "Properties", EmptyMap), EmptyMap)
             IN  IF ~IsDict(props) THEN Raise
                 ELSE Bool(IsDict(PyGet(props, "qDim", None)))

is_master_measure(yaml_dict) ==
    LET qi == _get_qinfo(yaml_dict)
    IN  IF IsRaise(qi) THEN Raise
        ELSE IF ~StrIn(PyGet(qi, "qType", None), MASTER_MEASURE_QTYPES) THEN Bool(FALSE)
        ELSE LET hcd == Or(PyGet(yaml_dict, "qHyperCubeDef", EmptyMap), EmptyMap)
             IN  IF ~IsDict(hcd) THEN Raise
                 ELSE Bool(IsList(PyGet(hcd, "qMeasures", None)))

is_variable(yaml_dict, file_path) ==
    LET qi == _get_qinfo(yaml_dict)
        props == Or(PyGet(yaml_dict, "Properties", EmptyMap), EmptyMap)
        has_definition == PyIn("qDefinition", props) \/ PyIn("Definition", yaml_dict)
        parent_folder == Lower(parent_dir_name(file_path))
    IN  IF IsRaise(qi) THEN Raise
        ELSE IF StrIn(PyGet(qi, "qType", None), {"variable"}) THEN Bool(has_definition)
        ELSE IF parent_folder = "variables" /\ has_definition THEN Bool(TRUE)
        ELSE Bool(FALSE)

is_sheet(yaml_dict) ==
    LET qi == _get_qinfo(yaml_dict)
    IN  IF IsRaise(qi) THEN Raise
        ELSE Bool(StrIn(PyGet(qi, "qType", None), {"sheet"}))

is_widget_instance(yaml_dict) ==
    LET qi == _get_qinfo(yaml_dict)
    IN  IF IsRaise(qi) THEN Raise
        ELSE LET qtype == PyGet(qi, "qType", Str(""))
                 props == Or(PyGet(yaml_dict, "Properties", EmptyMap), EmptyMap)
             IN  IF StrIn(qtype, WIDGET_QTYPES) THEN Bool(TRUE)
                 ELSE IF ~IsStr(qtype) THEN Raise    \* qtype.startswith on a non-str
                 ELSE IF StartsWithVizlib(qtype.v) THEN Bool(TRUE)
                 ELSE Bool(PyIn("visualization", props) \/ PyIn("template", props))

(***************************************************************************)
(* identifier_extractor.py: the extractors.  A descriptor is the dict the  *)
(* Python builds, as a record; obj_id and the other values copied from the *)
(* document stay tagged values.                                            *)
(***************************************************************************)
extract_dimension_info(yaml_dict, file_path) ==
    LET qi == _get_qinfo(yaml_dict)
        props == Or(PyGet(yaml_dict, "Properties", EmptyMap), EmptyMap)
    IN  IF IsRaise(qi) \/ ~IsDict(props) THEN Raise
        ELSE LET qdim == Or(PyGet(props, "qDim", EmptyMap), EmptyMap)
             IN  IF ~IsDict(qdim) THEN Raise
                 ELSE Map([obj_id    |-> PyGet(qi, "qId", None),
                           type_name |-> "YAML_Dimension",
                           fields    |-> Keys(qdim),
                           file_path |-> file_path])

\* mid = mi_qi.get("qId") or m.get("qLibraryId") or mi_meta.get("title")
measure_id(m) ==
    IF ~IsDict(m) THEN Raise
    ELSE LET mi_qi == Or(PyGet(m, "qInfo", EmptyMap), EmptyMap)
             mi_meta == Or(PyGet(m, "qMetaDef", EmptyMap), EmptyMap)
         IN  IF ~IsDict(mi_qi) THEN Raise
             ELSE IF Truthy(PyGet(mi_qi, "qId", None)) THEN PyGet(mi_qi, "qId", None)
             ELSE IF Truthy(PyGet(m, "qLibraryId", None)) THEN PyGet(m, "qLibraryId", None)
             ELSE IF ~IsDict(mi_meta) THEN Raise
             ELSE PyGet(mi_meta, "title", None)

\* the single container entry returned when qMeasures is empty
container_info(yaml_dict, file_path) ==
    LET qi == _get_qinfo(yaml_dict)
        props == Or(PyGet(yaml_dict, "Properties", None), EmptyMap)
    IN  IF IsRaise(qi) \/ ~IsDict(props) THEN Raise
        ELSE Map([obj_id    |-> PyGet(qi, "qId", None),
                  type_name |-> "YAML_MasterObject",
                  fields    |-> Keys(props),
                  file_path |-> file_path])

\* rule 5) of classify_and_extract: the dict built inline for masterobject.yaml
masterobject_info(yaml_dict, file_path) ==
    LET qi == _get_qinfo(yaml_dict)
        props == Or(PyGet(yaml_dict, "Properties", None), EmptyMap)
    IN  IF IsRaise(qi) \/ ~IsDict(props) THEN Raise
        ELSE Map([obj_id    |-> PyGet(qi, "qId", None),
                  type_name |-> "YAML_MasterObject",
                  fields    |-> Keys(props),
                  file_path |-> file_path])

extract_master_measure_info(yaml_dict, file_path) ==
    LET hcd == Or(PyGet(yaml_dict, "qHyperCubeDef", EmptyMap), EmptyMap)
    IN  IF ~IsDict(hcd) THEN Raise
        ELSE LET measures == Or(PyGet(hcd, "qMeasures", EmptyList), EmptyList)
             IN  IF ~Truthy(measures)
                 THEN LET c == container_info(yaml_dict, file_path)
                      IN  IF IsRaise(c) THEN Raise ELSE List(<<c.v>>)
                 ELSE IF ~IsList(measures) THEN Raise
                 ELSE IF \E i \in 1..Len(measures.v) : IsRaise(measure_id(measures.v[i]))
                 THEN Raise
                 ELSE List([i \in 1..Len(measures.v) |->
                            [obj_id     |-> measure_id(measures.v[i]),
                             type_name  |-> "YAML_MasterMeasure",
                             definition |-> PyGet(measures.v[i], "qDef", Str("")),
                             fields     |-> {},
                             file_path  |-> file_path]])

extract_variable_info(yaml_dict, file_path) ==
    LET name == Or(PyGet(yaml_dict, "Name", None), Str("<UnnamedVariable>"))
        definition == PyGet(yaml_dict, "Definition", None)
        props == Or(PyGet(yaml_dict, "Properties", EmptyMap), EmptyMap)
    IN  IF ~Truthy(definition) /\ ~IsDict(props) THEN Raise
        ELSE Map([obj_id     |-> name,
                  type_name  |-> "YAML_Variable",
                  expression |-> IF Truthy(definition) THEN definition
                                 ELSE PyGet(props, "qDefinition", Str("")),
                  fields     |-> {},
                  file_path  |-> file_path])

\* The ids of the widgets under the sibling "Widgets" directory.  fs is what
\* os.path.isdir / os.listdir / os.path.isfile / yaml.safe_load give there:
\* [isdir, children: sequence of [child, isfile, wdata]]; a child whose load
\* or lookup raises is skipped (try/except Exception: continue).
sheet_objects_of(fs) ==
    LET wid(c) ==
            LET wqi == _get_qinfo(c.wdata)
            IN  IF IsRaise(wqi) THEN Raise
                ELSE Or(Or(PyGet(wqi, "qId", None), PyGet(c.wdata, "Id", None)), Str(c.child))
        F[i \in 0..Len(fs.children)] ==
            IF i = 0 THEN <<>>
            ELSE IF fs.children[i].isfile /\ ~IsRaise(wid(fs.children[i]))
                 THEN Append(F[i - 1], wid(fs.children[i]))
                 ELSE F[i - 1]
    IN  IF fs.isdir THEN F[Len(fs.children)] ELSE <<>>

extract_sheet_info(yaml_dict, file_path, fs) ==
    LET sp == Or(PyGet(yaml_dict, "SheetProperties", EmptyMap), EmptyMap)
    IN  IF ~IsDict(sp) THEN Raise
        ELSE LET props == Or(PyGet(sp, "Properties", EmptyMap), EmptyMap)
             IN  IF ~IsDict(props) THEN Raise
                 ELSE LET qi == Or(PyGet(props, "qInfo", EmptyMap), EmptyMap)
                      IN  IF ~IsDict(qi) THEN Raise
                          ELSE Map([obj_id        |-> Or(Or(PyGet(qi, "qId", None),
                                                            PyGet(sp, "Id", None)),
                                                         Str("<UnnamedSheet>")),
                                    type_name     |-> "YAML_Sheet",
                                    fields        |-> {"sheetObjects"},
                                    sheet_objects |-> sheet_objects_of(fs),
                                    file_path     |-> file_path])

\* depends with every string qLibraryId, the empty ones too
library_ids_all(measures) ==
    LET F[i \in 0..Len(measures)] ==
            IF i = 0 THEN <<>>
            ELSE LET lib == PyGet(measures[i], "qLibraryId", None)
                 IN  IF IsStr(lib) THEN Append(F[i - 1], lib.v) ELSE F[i - 1]
    IN  F[Len(measures)]

\* depends: every non-empty string qLibraryId of the entries, in list order
library_ids(measures) ==
    LET F[i \in 0..Len(measures)] ==
            IF i = 0 THEN <<>>
            ELSE LET lib == PyGet(measures[i], "qLibraryId", None)
                 IN  IF IsStr(lib) /\ Truthy(lib) THEN Append(F[i - 1], lib.v)
                     ELSE F[i - 1]
    IN  F[Len(measures)]

extract_widget_info(yaml_dict, file_path) ==
    LET qi == _get_qinfo(yaml_dict)
        props == Or(PyGet(yaml_dict, "Properties", EmptyMap), EmptyMap)
    IN  IF IsRaise(qi) \/ ~IsDict(props) THEN Raise
        ELSE LET wid == Or(Or(Or(PyGet(qi, "qId", None), PyGet(yaml_dict, "Id", None)),
                              PyGet(yaml_dict, "Name", None)), Str("<UnnamedWidget>"))
                 qh == Or(PyGet(props, "qHyperCubeDef", EmptyMap), EmptyMap)
                 measures == PyGet(qh, "qMeasures", EmptyList)
             IN  IF ~IsDict(qh) THEN Raise
                 ELSE IF IsList(measures)
                         /\ \E i \in 1..Len(measures.v) : ~IsDict(measures.v[i])
                 THEN Raise                          \* m.get on a non-dict entry
                 ELSE Map([obj_id        |-> wid,
                           type_name     |-> "YAML_Widget",
                           fields        |-> Keys(props),
                           visualization |-> PyGet(props, "visualization", Str("")),
                           master_ref    |-> Or(Or(PyGet(props, "template", None),
                                                   PyGet(props, "templateName", None)),
                                                PyGet(props, "qExtendsId", None)),
                           file_path     |-> file_path,
                           depends_on    |-> IF IsList(measures)
                                             THEN library_ids(measures.v)
                                             ELSE <<>>])

fallback_info(yaml_dict, file_path) ==
    LET raw_qi == _get_qinfo(yaml_dict)
        parent_folder == Lower(parent_dir_name(file_path))
        props == Or(PyGet(yaml_dict, "Properties", EmptyMap), EmptyMap)
    IN  IF IsRaise(raw_qi) THEN Raise
        ELSE Map([obj_id    |-> Or(Or(PyGet(raw_qi, "qId", None), PyGet(yaml_dict, "Id", None)),
                                   Str(Stem(basename(file_path)))),
                  type_name |-> "YAML_" \o Capitalize(parent_folder),
                  fields    |-> IF IsDict(props) THEN Keys(props) ELSE {},
                  file_path |-> file_path])

(***************************************************************************)
(* classify_and_extract: the ordered rule chain.  The result is None, a    *)
(* descriptor (Map), a list of descriptors (List) or Raise.                *)
(***************************************************************************)
classify_and_extract(yaml_dict, file_path, is_root, fs) ==
    LET fname == Lower(basename(file_path))
        parent_folder == Lower(parent_dir_name(file_path))
        r_var == IF parent_folder = "variables"
                 THEN is_variable(yaml_dict, file_path) ELSE Bool(FALSE)
        r_dim == IF fname = "dimension.yaml" THEN is_dimension(yaml_dict) ELSE Bool(FALSE)
        r_mea == IF fname = "measure.yaml" THEN is_master_measure(yaml_dict) ELSE Bool(FALSE)
        r_mob == IF fname = "masterobject.yaml"
                 THEN is_master_measure(yaml_dict) ELSE Bool(FALSE)
        r_wid == IF fname = "widget.yaml" THEN is_widget_instance(yaml_dict) ELSE Bool(FALSE)
        r_she == IF fname = "sheet.yaml" THEN is_sheet(yaml_dict) ELSE Bool(FALSE)
    IN  IF ~is_root THEN None
        ELSE IF ~IsDict(yaml_dict) THEN None
        ELSE IF IsRaise(r_var) THEN Raise
        ELSE IF r_var.v THEN extract_variable_info(yaml_dict, file_path)
        ELSE IF IsRaise(r_dim) THEN Raise
        ELSE IF r_dim.v THEN extract_dimension_info(yaml_dict, file_path)
        ELSE IF IsRaise(r_mea) THEN Raise
        ELSE IF r_mea.v THEN extract_master_measure_info(yaml_dict, file_path)
        ELSE IF IsRaise(r_mob) THEN Raise
        ELSE IF r_mob.v THEN masterobject_info(yaml_dict, file_path)
        ELSE IF IsRaise(r_wid) THEN Raise
        ELSE IF r_wid.v THEN extract_widget_info(yaml_dict, file_path)
        ELSE IF IsRaise(r_she) THEN Raise
        ELSE IF r_she.v THEN extract_sheet_info(yaml_dict, file_path, fs)
        ELSE fallback_info(yaml_dict, file_path)

(***************************************************************************)
(* knowledge_base.py: the object_types table of one kb.sqlite3, as the     *)
(* sequence of its rows in rowid order.  A row is [type_id, type_name,     *)
(* fields, emb]; fields_json is the sorted lowercased field list, kept as  *)
(* a set; emb_json is the embedding of that field text (emb.has) or NULL.  *)
(* The embedding model is external: the embedding of a field text is       *)
(* represented by the field set itself and util.cos_sim by the table sim,  *)
(* in units of 1/10000.                                                    *)
(***************************************************************************)
THRESHOLD == 9000

NoEmb == [has |-> FALSE, of |-> {}]
Emb(fieldset) == [has |-> TRUE, of |-> fieldset]

cos_sim(new_emb, existing_emb) ==
    IF new_emb.of = existing_emb.of THEN 10000 ELSE sim[{new_emb.of, existing_emb.of}]

\* [f.lower() for f in fields], as a set
normalize(fields) == {Lower(f) : f \in fields}

list_types(rows) == rows

max_type_id(rows) ==
    LET F[i \in 0..Len(rows)] ==
            IF i = 0 THEN 0
            ELSE IF rows[i].type_id > F[i - 1] THEN rows[i].type_id ELSE F[i - 1]
    IN  F[Len(rows)]

\* add_type that stores an embedding whether or not the model is loaded
add_type_always_embeds(rows, fuzzy, type_name, fields) ==
    IF \E i \in 1..Len(rows) : rows[i].type_name = type_name
    THEN rows
    ELSE Append(rows, [type_id   |-> max_type_id(rows) + 1,
                       type_name |-> type_name,
                       fields    |-> normalize(fields),
                       emb       |-> Emb(normalize(fields))])

\* KnowledgeBase.add_type: INSERT, skipped on the UNIQUE(type_name) conflict
add_type(rows, fuzzy, type_name, fields) ==
    LET normalized == normalize(fields)
        emb == IF fuzzy THEN Emb(normalized) ELSE NoEmb
    IN  IF \E i \in 1..Len(rows) : rows[i].type_name = type_name
        THEN rows
        ELSE Append(rows, [type_id   |-> max_type_id(rows) + 1,
                           type_name |-> type_name,
                           fields    |-> normalized,
                           emb       |-> emb])

\* a stored emb_json that json.loads, torch.tensor or util.cos_sim fails on:
\* not a vector, or a vector of another dimension than the model's
MalformedEmb == [has |-> TRUE, of |-> {"<malformed>"}]

comparison_raises(existing_emb) == existing_emb = MalformedEmb

\* the loop where the first failing row ends the matching without a result
best_match_aborting(rows, new_emb) ==
    LET F[i \in 0..Len(rows)] ==
            IF i = 0 THEN [sim |-> 0, type |-> 0]
            ELSE IF rows[i].emb.has /\ ~comparison_raises(rows[i].emb)
                    /\ cos_sim(new_emb, rows[i].emb) > F[i - 1].sim
                 THEN [sim |-> cos_sim(new_emb, rows[i].emb), type |-> rows[i].type_id]
                 ELSE F[i - 1]
    IN  IF \E i \in 1..Len(rows) : comparison_raises(rows[i].emb)
        THEN [sim |-> 0, type |-> 0]
        ELSE F[Len(rows)]

\* the loop of find_candidate_type over the rows with an embedding:
\* [sim, type] of the best row so far, replaced only by a strictly larger
\* one; a row whose comparison raises is skipped (except Exception: continue)
best_match(rows, new_emb) ==
    LET F[i \in 0..Len(rows)] ==
            IF i = 0 THEN [sim |-> 0, type |-> 0]
            ELSE IF rows[i].emb.has /\ ~comparison_raises(rows[i].emb)
                    /\ cos_sim(new_emb, rows[i].emb) > F[i - 1].sim
                 THEN [sim |-> cos_sim(new_emb, rows[i].emb), type |-> rows[i].type_id]
                 ELSE F[i - 1]
    IN  F[Len(rows)]

\* find_candidate_type with best_sim > threshold
find_candidate_type_strict(rows, fuzzy, fields, threshold) ==
    LET best == best_match(rows, Emb(normalize(fields)))
    IN  IF Len(rows) = 0 \/ ~fuzzy THEN 0
        ELSE IF best.type # 0 /\ best.sim > threshold THEN best.type
        ELSE 0

\* KnowledgeBase.find_candidate_type: a type_id, or 0 for None
find_candidate_type(rows, fuzzy, fields, threshold) ==
    LET normalized == normalize(fields)
        best == best_match(rows, Emb(normalized))
    IN  IF Len(rows) = 0 \/ ~fuzzy THEN 0
        ELSE IF best.type # 0 /\ best.sim >= threshold THEN best.type
        ELSE 0

(***************************************************************************)
(* schema_inferer.py                                                       *)
(***************************************************************************)
KNOWN_SCHEMAS == {"YAML_Dimension", "YAML_MasterMeasure", "YAML_MasterObject",
                  "YAML_Variable", "YAML_Sheet", "YAML_Widget"}

\* propose_type_for_fields without step 2, the exact match
propose_type_no_exact(rows, fuzzy, fields) ==
    LET normalized == normalize(fields)
        candidate_id == find_candidate_type(rows, fuzzy, normalized, THRESHOLD)
        cand == {i \in 1..Len(rows) : rows[i].type_id = candidate_id}
        new_type == "UnknownType_" \o ToString(max_type_id(rows) + 1)
    IN  IF candidate_id # 0 /\ cand # {}
        THEN [name |-> rows[CHOOSE i \in cand : TRUE].type_name, rows |-> rows]
        ELSE [name |-> new_type, rows |-> add_type(rows, fuzzy, new_type, normalized)]

\* propose_type_for_fields whose exact match compares the stored field set
\* with the field list as given, not with its normalisation
propose_type_exact_on_raw_fields(rows, fuzzy, fields) ==
    LET normalized == normalize(fields)
        exact == {i \in 1..Len(rows) : rows[i].fields = fields}
        first_exact == CHOOSE i \in exact : \A j \in exact : i <= j
        candidate_id == find_candidate_type(rows, fuzzy, normalized, THRESHOLD)
        cand == {i \in 1..Len(rows) : rows[i].type_id = candidate_id}
        new_type == "UnknownType_" \o ToString(max_type_id(rows) + 1)
    IN  IF exact # {}
        THEN [name |-> rows[first_exact].type_name, rows |-> rows]
        ELSE IF candidate_id # 0 /\ cand # {}
        THEN [name |-> rows[CHOOSE i \in cand : TRUE].type_name, rows |-> rows]
        ELSE [name |-> new_type, rows |-> add_type(rows, fuzzy, new_type, normalized)]

\* propose_type_for_fields with existing_type = None: [name, rows] are the
\* returned type name and the table after the call
propose_type_for_fields(rows, fuzzy, fields) ==
    LET normalized == normalize(fields)
        exact == {i \in 1..Len(rows) : normalize(rows[i].fields) = normalized}
        first_exact == CHOOSE i \in exact : \A j \in exact : i <= j
        candidate_id == find_candidate_type(rows, fuzzy, normalized, THRESHOLD)
        cand == {i \in 1..Len(rows) : rows[i].type_id = candidate_id}
        new_type == "UnknownType_" \o ToString(max_type_id(rows) + 1)
    IN  IF exact # {}
        THEN [name |-> rows[first_exact].type_name, rows |-> rows]
        ELSE IF candidate_id # 0 /\ cand # {}
        THEN [name |-> rows[CHOOSE i \in cand : TRUE].type_name, rows |-> rows]
        ELSE [name |-> new_type, rows |-> add_type(rows, fuzzy, new_type, normalized)]

\* infer_schema_for_base_object that always goes to the catalog
infer_schema_always_propose(rows, fuzzy, base_obj) ==
    propose_type_for_fields(rows, fuzzy, base_obj.fields)

\* infer_schema_for_base_object
infer_schema_for_base_object(rows, fuzzy, base_obj) ==
    IF base_obj.node_type \in KNOWN_SCHEMAS
    THEN [name |-> base_obj.node_type, rows |-> rows]
    ELSE propose_type_for_fields(rows, fuzzy, base_obj.fields)

(***************************************************************************)
(* models.py: Repository.objects is a dict, kept as the sequence of its    *)
(* BaseObjects in insertion order; the key of each is its obj_id.          *)
(***************************************************************************)
BaseObject(obj_id, node_type, file_path, fields, depends_on, raw_yaml) ==
    [obj_id |-> obj_id, node_type |-> node_type, file_path |-> file_path,
     fields |-> fields, depends_on |-> depends_on, raw_yaml |-> raw_yaml]

has_key(objects, key) == \E i \in 1..Len(objects) : objects[i].obj_id = key

\* Repository.find_by_id: the stored object, or None
find_by_id(objects, obj_id) ==
    IF has_key(objects, obj_id)
    THEN [t |-> "obj", v |-> objects[CHOOSE i \in 1..Len(objects) : objects[i].obj_id = obj_id]]
    ELSE None

\* Repository.add_object: self.objects[obj.obj_id] = obj
add_object(objects, obj) ==
    IF has_key(objects, obj.obj_id)
    THEN [i \in 1..Len(objects) |->
            IF objects[i].obj_id = obj.obj_id THEN obj ELSE objects[i]]
    ELSE Append(objects, obj)

(***************************************************************************)
(* dependency_finder.py: the insertion path.  The state threaded through   *)
(* is [objects, rows, raised]: the Repository, the catalog table and       *)
(* whether an exception left the call.                                     *)
(***************************************************************************)
Scanned(objects, rows, raised) == [objects |-> objects, rows |-> rows, raised |-> raised]

\* the insertion without the find_by_id test
insert_typed_overwrite(temp_obj, final, objects) ==
    IF Truthy(temp_obj.obj_id)
    THEN Scanned(add_object(objects, [temp_obj EXCEPT !.node_type = final.name]),
                 final.rows, FALSE)
    ELSE Scanned(objects, final.rows, FALSE)

\* the insertion without the test of obj_id
insert_typed_any_id(temp_obj, final, objects) ==
    IF find_by_id(objects, temp_obj.obj_id) = None
    THEN Scanned(add_object(objects, [temp_obj EXCEPT !.node_type = final.name]),
                 final.rows, FALSE)
    ELSE Scanned(objects, final.rows, FALSE)

\* lines 56-61: typed_obj, and the insertion guarded by obj_id and find_by_id;
\* final is what infer_schema_for_base_object returned
insert_typed(temp_obj, final, objects) ==
    IF Truthy(temp_obj.obj_id) /\ find_by_id(objects, temp_obj.obj_id) = None
    THEN Scanned(add_object(objects, [temp_obj EXCEPT !.node_type = final.name]),
                 final.rows, FALSE)
    ELSE Scanned(objects, final.rows, FALSE)

\* temp_obj with the sheet_objects of the descriptor taken as dependencies
temp_object_with_sheet_objects(info, raw_yaml) ==
    BaseObject(info.obj_id, info.type_name, info.file_path, info.fields,
               (IF "depends_on" \in DOMAIN info THEN info.depends_on ELSE <<>>)
               \o (IF "sheet_objects" \in DOMAIN info
                   THEN [i \in 1..Len(info.sheet_objects) |-> info.sheet_objects[i].v]
                   ELSE <<>>),
               raw_yaml)

\* lines 39-53: temp_obj
temp_object(info, raw_yaml) ==
    BaseObject(info.obj_id, info.type_name, info.file_path, info.fields,
               IF "depends_on" \in DOMAIN info THEN info.depends_on ELSE <<>>, raw_yaml)

\* the insertion test taken first: the type is resolved only for an object
\* that is going to be stored
_create_base_object_guard_first(info, objects, rows, fuzzy, raw_yaml) ==
    IF Truthy(info.obj_id) /\ find_by_id(objects, info.obj_id) = None
    THEN insert_typed(temp_object(info, raw_yaml),
                      infer_schema_for_base_object(rows, fuzzy, temp_object(info, raw_yaml)),
                      objects)
    ELSE Scanned(objects, rows, FALSE)

_create_base_object(info, objects, rows, fuzzy, raw_yaml) ==
    insert_typed(temp_object(info, raw_yaml),
                 infer_schema_for_base_object(rows, fuzzy, temp_object(info, raw_yaml)),
                 objects)

\* for m in info: _create_base_object(m, ...)
create_all(infos, objects, rows, fuzzy, raw_yaml) ==
    LET F[i \in 0..Len(infos)] ==
            IF i = 0 THEN Scanned(objects, rows, FALSE)
            ELSE _create_base_object(infos[i], F[i - 1].objects, F[i - 1].rows,
                                     fuzzy, raw_yaml)
    IN  F[Len(infos)]

\* the dicts directly under a dict: its dict values and the dict items of
\* its list values
nested_dicts(node) ==
    {node.v[k] : k \in {k \in DOMAIN node.v : IsDict(node.v[k])}}
    \cup UNION {{node.v[k].v[i] : i \in {i \in 1..Len(node.v[k].v) : IsDict(node.v[k].v[i])}}
                : k \in {k \in DOMAIN node.v : IsList(node.v[k])}}

RECURSIVE _scan_dict_node(_, _, _, _, _, _, _)
RECURSIVE scan_nested(_, _, _, _, _, _)

\* lines 72-79: what _scan_dict_node does with the info of its node
create_from(info, objects, rows, fuzzy, node) ==
    IF IsRaise(info) THEN Scanned(objects, rows, TRUE)
    ELSE IF IsList(info) THEN create_all(info.v, objects, rows, fuzzy, node)
    ELSE IF IsDict(info) THEN _create_base_object(info.v, objects, rows, fuzzy, node)
    ELSE Scanned(objects, rows, FALSE)

\* lines 82-89: the recursion into the values of the node, after its own info
scan_values(node, file_path, fs, fuzzy, after) ==
    IF after.raised THEN after
    ELSE scan_nested(nested_dicts(node), file_path, fs, after.objects, after.rows, fuzzy)

\* _scan_dict_node that classifies every dict it reaches as a root
_scan_dict_node_all_roots(node, file_path, fs, objects, rows, fuzzy, is_root) ==
    IF ~IsDict(node) THEN Scanned(objects, rows, FALSE)
    ELSE scan_values(node, file_path, fs, fuzzy,
                     create_from(classify_and_extract(node, file_path, TRUE, fs),
                                 objects, rows, fuzzy, node))

_scan_dict_node(node, file_path, fs, objects, rows, fuzzy, is_root) ==
    IF ~IsDict(node) THEN Scanned(objects, rows, FALSE)
    ELSE scan_values(node, file_path, fs, fuzzy,
                     create_from(classify_and_extract(node, file_path, is_root, fs),
                                 objects, rows, fuzzy, node))

\* the rest of the loop once one nested dict is scanned
scan_rest(nodes, file_path, fs, fuzzy, one) ==
    IF one.raised THEN one
    ELSE scan_nested(nodes, file_path, fs, one.objects, one.rows, fuzzy)

\* the loop over node.values(), every nested dict scanned with is_root=False
scan_nested(nodes, file_path, fs, objects, rows, fuzzy) ==
    IF nodes = {} THEN Scanned(objects, rows, FALSE)
    ELSE LET n == CHOOSE n \in nodes : TRUE
         IN  scan_rest(nodes \ {n}, file_path, fs, fuzzy,
                       _scan_dict_node(n, file_path, fs, objects, rows, fuzzy, FALSE))

process_yaml_file(yaml_data, file_path, fs, objects, rows, fuzzy) ==
    LET F[i \in 0..(IF IsList(yaml_data) THEN Len(yaml_data.v) ELSE 0)] ==
            IF i = 0 THEN Scanned(objects, rows, FALSE)
            ELSE IF F[i - 1].raised THEN F[i - 1]
            ELSE IF IsDict(yaml_data.v[i])
                 THEN _scan_dict_node(yaml_data.v[i], file_path, fs,
                                      F[i - 1].objects, F[i - 1].rows, fuzzy, TRUE)
                 ELSE F[i - 1]
    IN  IF IsList(yaml_data) THEN F[Len(yaml_data.v)]
        ELSE IF IsDict(yaml_data)
        THEN _scan_dict_node(yaml_data, file_path, fs, objects, rows, fuzzy, TRUE)
        ELSE Scanned(objects, rows, FALSE)

(***************************************************************************)
(* graph_builder.py: a networkx.DiGraph is [nodes, attrs, edges]; attrs    *)
(* maps each node to its attribute dict, NoAttrs when it has none.         *)
(***************************************************************************)
NoPath == [dir |-> "", base |-> ""]
NoAttrs == [type_name |-> "", file_path |-> NoPath, set |-> FALSE]
Attrs(type_name, file_path) == [type_name |-> type_name, file_path |-> file_path, set |-> TRUE]
EmptyGraph == [nodes |-> {}, attrs |-> [n \in {} |-> NoAttrs], edges |-> {}]

\* DiGraph.add_node(n, **attrs): a new node, or the attributes updated
add_node(g, n, attrs) ==
    [nodes |-> g.nodes \cup {n},
     attrs |-> [m \in g.nodes \cup {n} |->
                 IF m = n THEN (IF attrs.set \/ n \notin g.nodes THEN attrs ELSE g.attrs[n])
                 ELSE g.attrs[m]],
     edges |-> g.edges]

\* DiGraph.add_edge(u, v): missing endpoints become nodes without attributes
add_edge(g, u, v) ==
    LET g1 == IF u \in g.nodes THEN g ELSE add_node(g, u, NoAttrs)
        g2 == IF v \in g1.nodes THEN g1 ELSE add_node(g1, v, NoAttrs)
    IN  [g2 EXCEPT !.edges = @ \cup {<<u, v>>}]

\* the first loop: one node per object with a truthy obj_id
graph_nodes(objects) ==
    LET F[i \in 0..Len(objects)] ==
            IF i = 0 THEN EmptyGraph
            ELSE IF ~Truthy(objects[i].obj_id) THEN F[i - 1]
            ELSE add_node(F[i - 1], objects[i].obj_id,
                          Attrs(objects[i].node_type, objects[i].file_path))
    IN  F[Len(objects)]

\* the inner loop body without the placeholder node
graph_dep_no_placeholder(g, objects, obj_id, dep) ==
    IF dep = "" THEN g ELSE add_edge(g, obj_id, Str(dep))

\* the body of the inner loop for one dependency of one object
graph_dep(g, objects, obj_id, dep) ==
    IF dep = "" THEN g
    ELSE IF has_key(objects, Str(dep)) /\ Str(dep) # obj_id
    THEN add_edge(g, obj_id, Str(dep))
    ELSE add_edge(add_node(g, Str(dep), Attrs("Unknown", NoPath)), obj_id, Str(dep))

\* for dep in set(obj.depends_on): a repeated dependency repeats the same
\* idempotent step, so the loop runs over the list as it is
graph_deps(g, objects, obj) ==
    LET F[j \in 0..Len(obj.depends_on)] ==
            IF j = 0 THEN g
            ELSE graph_dep(F[j - 1], objects, obj.obj_id, obj.depends_on[j])
    IN  F[Len(obj.depends_on)]

\* the build whose second loop does not skip the objects with a falsy obj_id
build_dependency_graph_all_sources(objects) ==
    LET F[i \in 0..Len(objects)] ==
            IF i = 0 THEN graph_nodes(objects)
            ELSE graph_deps(F[i - 1], objects, objects[i])
    IN  F[Len(objects)]

build_dependency_graph(objects) ==
    LET F[i \in 0..Len(objects)] ==
            IF i = 0 THEN graph_nodes(objects)
            ELSE IF ~Truthy(objects[i].obj_id) THEN F[i - 1]
            ELSE graph_deps(F[i - 1], objects, objects[i])
    IN  F[Len(objects)]

(***************************************************************************)
(* The documents of the model.  An input is [yaml_data, file_path, fs]:    *)
(* what load_yaml_file returned, where the file is, and what the sibling   *)
(* "Widgets" directory holds.                                              *)
(***************************************************************************)
Dirs == {"Variables", "Measures"}
Bases == {"Measure.yaml", "MasterObject.yaml", "widget.yaml", "dimension.yaml",
          "sheet.yaml", "App.yaml"}
Paths == [dir : Dirs, base : Bases]

NoFs == [isdir |-> FALSE, children |-> <<>>]
WidgetsFs ==
    [isdir |-> TRUE,
     children |-> << [child |-> "w1", isfile |-> TRUE,
                      wdata |-> Map([qInfo |-> Map([qId |-> Str("W1")])])],
                     [child |-> "w2", isfile |-> TRUE, wdata |-> None],
                     [child |-> "w3", isfile |-> TRUE, wdata |-> Map([Name |-> Str("n")])],
                     [child |-> "w4", isfile |-> FALSE, wdata |-> None] >>]

TypeTags == {"measure", "mastermeasure", "masterobject", "dimension", "variable",
             "sheet", "visualization", "VizlibTable", "chart"}
TagOpts == {Absent, None} \cup {Str(s) : s \in TypeTags}
IdOpts == {Absent, Str(""), Str("A")}
QInfo(tag, id) == MapOf({<<"qType", tag>>, <<"qId", id>>})

\* the entries of a qMeasures list: own id; library id; falsy ids and a
\* title; own id and library id; no id at all; not a mapping
Entries ==
    { Map([qInfo |-> Map([qId |-> Str("M1")]), qDef |-> Str("Sum(X)")]),
      Map([qLibraryId |-> Str("M2"), qDef |-> Str("Avg(Y)")]),
      Map([qInfo |-> Map([qId |-> Str("")]), qLibraryId |-> Str(""),
           qMetaDef |-> Map([title |-> Str("T3")])]),
      Map([qInfo |-> Map([qId |-> Str("M1")]), qLibraryId |-> Str("A")]),
      EmptyMap,
      Str("text") }
MeasureLists == UNION {[1..n -> Entries] : n \in 0..MaxMeasures}
HyperCubes == {None, Str("text"), EmptyMap, Map([qMeasures |-> Str("text")])}
              \cup {Map([qMeasures |-> List(l)]) : l \in MeasureLists}

Doc(qInfo, Properties, qHyperCubeDef, Definition, Name, Id, SheetProperties) ==
    MapOf({<<"qInfo", qInfo>>, <<"Properties", Properties>>,
           <<"qHyperCubeDef", qHyperCubeDef>>, <<"Definition", Definition>>,
           <<"Name", Name>>, <<"Id", Id>>, <<"SheetProperties", SheetProperties>>})

\* the top-level Definition / Name / Id keys a document carries besides
TopExtras ==
    { [Definition |-> Absent, Name |-> Absent, Id |-> Absent],
      [Definition |-> Str("=1"), Name |-> Absent, Id |-> Absent],
      [Definition |-> Absent, Name |-> Str("vName"), Id |-> Absent],
      [Definition |-> Str("=1"), Name |-> Str("vName"), Id |-> Absent],
      [Definition |-> Absent, Name |-> Absent, Id |-> Str("I1")] }

PropShapes ==
    { Absent, None, Str("text"), EmptyMap,
      Map([qDim |-> Map([qGrouping |-> Str("N")])]),
      Map([qDefinition |-> Str("=2")]),
      Map([visualization |-> Str("barchart"), Title |-> Str("t")]) }
PropExtras ==
    { Absent, EmptyMap, Map([qDim |-> Map([qGrouping |-> Str("N")])]),
      Map([qDefinition |-> Str("=2")]), Map([template |-> Str("tpl")]) }

\* a Properties block holding the type-info next to the keys of extra
PropsWith(qinfo, extra) ==
    Map([k \in {"qInfo"} \cup (IF IsDict(extra) THEN DOMAIN extra.v ELSE {}) |->
            IF k = "qInfo" THEN qinfo ELSE extra.v[k]])

\* documents that vary the type-info, its place and the Properties block
TypeInfoDocs ==
    {Doc(QInfo(tag, id), p, Absent, x.Definition, x.Name, x.Id, Absent) :
        tag \in TagOpts, id \in IdOpts, p \in PropShapes, x \in TopExtras}
    \cup {Doc(Absent, PropsWith(QInfo(tag, id), e), Absent, x.Definition, x.Name, x.Id, Absent) :
        tag \in TagOpts, id \in IdOpts, e \in PropExtras, x \in TopExtras}
    \cup {Doc(Absent, p, Absent, x.Definition, x.Name, x.Id, Absent) :
        p \in PropShapes, x \in TopExtras}

\* documents with a top-level qHyperCubeDef
MeasureTags == {Str("measure"), Str("mastermeasure"), Str("masterobject"), Str("chart")}
MeasureDocs ==
    {Doc(QInfo(tag, id), p, h, d, Absent, Absent, Absent) :
        tag \in MeasureTags, id \in {Absent, Str("A")},
        p \in {Absent, Str("text"), Map([Title |-> Str("t"), qDef |-> Str("d")])},
        h \in HyperCubes, d \in {Absent, Str("=1")}}
    \cup {Doc(Absent, PropsWith(QInfo(tag, id), Map([Title |-> Str("t")])), h, d,
              Absent, Absent, Absent) :
        tag \in MeasureTags, id \in {Absent, Str("A")},
        h \in HyperCubes, d \in {Absent, Str("=1")}}

\* documents with a qHyperCubeDef inside Properties
WidgetTags == {Absent, None, Str("visualization"), Str("VizlibTable"), Str("chart")}
WidgetDocs ==
    {Doc(QInfo(tag, id), MapOf({<<"qHyperCubeDef", h>>, <<"visualization", vis>>}),
         Absent, Absent, x.Name, x.Id, Absent) :
        tag \in WidgetTags, id \in {Absent, Str("A")}, h \in HyperCubes,
        vis \in {Absent, Str("barchart")},
        x \in {y \in TopExtras : y.Definition = Absent}}

\* documents with a SheetProperties block
SheetDocs ==
    {Doc(QInfo(tag, id), Absent, Absent, Absent, Absent, Absent, sp) :
        tag \in {Str("sheet"), Str("chart")}, id \in {Absent, Str("A")},
        sp \in {Absent, None, Str("text"), Map([Id |-> Str("S1")]),
                Map([Id |-> Str("S1"),
                     Properties |-> Map([qInfo |-> Map([qId |-> Str("S2")])])]),
                Map([Properties |-> Str("text")])}}


\* the files of the modelled apps
LibRef(id) == Map([qLibraryId |-> Str(id)])
WidgetDoc(id, refs) ==
    Doc(QInfo(Str("visualization"), Str(id)),
        Map([qHyperCubeDef |-> Map([qMeasures |-> List(refs)])]),
        Absent, Absent, Absent, Absent, Absent)
NoIdMasterObject ==
    Doc(QInfo(Str("masterobject"), Absent), Absent, Map([qMeasures |-> EmptyList]),
        Absent, Absent, Absent, Absent)
EmptyIdMasterObject ==
    Doc(QInfo(Str("masterobject"), Str("")), Map([Title |-> Str("t"), qDef |-> Str("d")]),
        Map([qMeasures |-> List(<<LibRef("M1")>>)]), Absent, Absent, Str(""), Absent)
\* a sheet with the id S1, and beside it a Widgets directory with the
\* widget A, a file that does not load and an entry that is not a directory
SheetDoc ==
    Doc(QInfo(Str("sheet"), Absent), Absent, Absent, Absent, Absent, Absent,
        Map([Id |-> Str("S1")]))
SheetWidgetsFs ==
    [isdir |-> TRUE,
     children |-> << [child |-> "w1", isfile |-> TRUE,
                      wdata |-> WidgetDoc("A", <<LibRef("M1"), LibRef("X")>>)],
                     [child |-> "w2", isfile |-> TRUE, wdata |-> None],
                     [child |-> "w3", isfile |-> FALSE, wdata |-> None] >>]
RunDocs ==
    { [yaml_data |-> SheetDoc,
       file_path |-> [dir |-> "Measures", base |-> "sheet.yaml"], fs |-> SheetWidgetsFs],
      [yaml_data |-> WidgetDoc("A", <<LibRef("M1"), LibRef("X")>>),
       file_path |-> [dir |-> "Measures", base |-> "widget.yaml"], fs |-> NoFs],
      [yaml_data |-> WidgetDoc("A", <<LibRef("A"), LibRef(""), LibRef("X"), LibRef("X")>>),
       file_path |-> [dir |-> "Variables", base |-> "widget.yaml"], fs |-> NoFs],
      [yaml_data |-> WidgetDoc("B", <<LibRef("X"), LibRef("A")>>),
       file_path |-> [dir |-> "Measures", base |-> "widget.yaml"], fs |-> NoFs],
      [yaml_data |-> Doc(QInfo(Str("measure"), Str("C")), Absent,
                         Map([qMeasures |-> List(<<
                             Map([qInfo |-> Map([qId |-> Str("M1")]), qDef |-> Str("Sum(X)")]),
                             Map([qLibraryId |-> Str("A"), qDef |-> Str("Avg(Y)")])>>)]),
                         Absent, Absent, Absent, Absent),
       file_path |-> [dir |-> "Measures", base |-> "Measure.yaml"], fs |-> NoFs],
      [yaml_data |-> Doc(QInfo(Str("chart"), Str("A")), Map([Title |-> Str("t")]),
                         Absent, Absent, Absent, Absent, Absent),
       file_path |-> [dir |-> "Measures", base |-> "App.yaml"], fs |-> NoFs],
      [yaml_data |-> List(<<NoIdMasterObject, Str("text"), EmptyIdMasterObject>>),
       file_path |-> [dir |-> "Measures", base |-> "MasterObject.yaml"], fs |-> NoFs],
      [yaml_data |-> Doc(Absent, Str("text"), Absent, Absent, Absent, Absent, Absent),
       file_path |-> [dir |-> "Measures", base |-> "App.yaml"], fs |-> NoFs],
      [yaml_data |-> Str("text"),
       file_path |-> [dir |-> "Measures", base |-> "App.yaml"], fs |-> NoFs] }

(***************************************************************************)
(* The environment of a run: the app folders, the stores and the embedding *)
(* model.                                                                  *)
(***************************************************************************)
AppNames == {"AppA", "AppB"}
AGGREGATE_KB == "_aggregate_kb"
StorePaths == AppNames \cup {AGGREGATE_KB}
AppFolderLists == UNION {[1..n -> AppNames] : n \in 0..MaxUnits}

F_EMPTY == {}
F_TITLE == {"title"}
F_TITLE_QDEF == {"title", "qdef"}
FieldSets == {F_EMPTY, F_TITLE, F_TITLE_QDEF}
FieldPairs == {{a, b} : a \in FieldSets, b \in FieldSets} \ {{a} : a \in FieldSets}
SimValues == {0, 8999, 9000, 9500}
SimTables == [FieldPairs -> SimValues]
UniformSimTables == {[p \in FieldPairs |-> x] : x \in {8999, 9000}}

NoOp == [op |-> "none"]
ClosedKb == [path |-> "", open |-> FALSE]

InitRun ==
    /\ pc = "start"
    /\ units_done = 0
    /\ docs_done = 0
    /\ app_name = ""
    /\ repo = <<>>
    /\ kb = ClosedKb
    /\ stores = [p \in StorePaths |-> <<>>]
    /\ G = EmptyGraph
    /\ aggregate_repo = <<>>
    /\ aggregate_graph_nodes = <<>>
    /\ aggregate_graph_edges = <<>>
    /\ AggG = EmptyGraph
    /\ app_folders = <<>>
    /\ aggregate_kb = ClosedKb
    /\ last = NoOp
    /\ prev = NoOp

\* The documents of a run bring one field set, {title}, to the catalog, so
\* no similarity between two different field sets is ever read in a run.
Init ==
    /\ InitRun
    /\ fuzzy_enabled \in BOOLEAN
    /\ sim = [p \in FieldPairs |-> THRESHOLD]

(***************************************************************************)
(* cli.analyze                                                             *)
(***************************************************************************)
\* 1) discover_app_folders, 2) the aggregate structures
Discover ==
    /\ pc = "start"
    /\ \E folders \in AppFolderLists :
        /\ app_folders' = folders
        /\ IF Len(folders) = 0
           THEN /\ pc' = "exit"
                /\ aggregate_kb' = aggregate_kb
           ELSE /\ pc' = "idle"
                /\ aggregate_kb' = [path |-> AGGREGATE_KB, open |-> TRUE]
    /\ last' = [op |-> "discover"]
    /\ UNCHANGED <<units_done, docs_done, app_name, repo, kb, stores, G, aggregate_repo,
                   aggregate_graph_nodes, aggregate_graph_edges, AggG, fuzzy_enabled,
                   sim, prev>>

\* 3a) the per-app KnowledgeBase and Repository
StartUnit ==
    /\ pc = "idle"
    /\ units_done < Len(app_folders)
    /\ app_name' = app_folders[units_done + 1]
    /\ kb' = [path |-> app_folders[units_done + 1], open |-> TRUE]
    /\ repo' = <<>>
    /\ pc' = "unit"
    /\ last' = [op |-> "start_unit"]
    /\ UNCHANGED <<units_done, docs_done, stores, G, aggregate_repo,
                   aggregate_graph_nodes, aggregate_graph_edges, AggG, fuzzy_enabled,
                   sim, app_folders, aggregate_kb, prev>>

\* 3c) one YAML file of the app: load_yaml_file, then process_yaml_file
Processed(inp, r) ==
    /\ repo' = r.objects
    /\ stores' = [stores EXCEPT ![kb.path] = r.rows]
    /\ pc' = IF r.raised THEN "crashed" ELSE "unit"
    /\ last' = [op |-> "process", input |-> inp, repo_before |-> repo,
                rows_before |-> stores[kb.path], raised |-> r.raised]

ProcessDoc ==
    /\ pc = "unit"
    /\ docs_done < MaxDocs
    /\ \E inp \in RunDocs :
        Processed(inp, IF Truthy(inp.yaml_data)
                       THEN process_yaml_file(inp.yaml_data, inp.file_path, inp.fs,
                                              repo, stores[kb.path], fuzzy_enabled)
                       ELSE Scanned(repo, stores[kb.path], FALSE))
    /\ docs_done' = docs_done + 1
    /\ UNCHANGED <<units_done, app_name, kb, G, aggregate_repo, aggregate_graph_nodes,
                   aggregate_graph_edges, AggG, fuzzy_enabled, sim, app_folders,
                   aggregate_kb, prev>>

\* the merge without the test `obj_id not in aggregate_repo.objects`
merge_into_overwrite(aggregate, objects) ==
    LET F[i \in 0..Len(objects)] ==
            IF i = 0 THEN aggregate ELSE add_object(F[i - 1], objects[i])
    IN  F[Len(objects)]

\* 3i) for obj_id, obj in repo.objects.items(): first writer wins
merge_into(aggregate, objects) ==
    LET F[i \in 0..Len(objects)] ==
            IF i = 0 THEN aggregate
            ELSE IF ~has_key(F[i - 1], objects[i].obj_id)
                 THEN add_object(F[i - 1], objects[i])
                 ELSE F[i - 1]
    IN  F[Len(objects)]

\* 3d) build the per-app graph ... 3i) merge into the aggregate, close the kb
FinishUnit ==
    /\ pc = "unit"
    /\ G' = build_dependency_graph(repo)
    /\ aggregate_repo' = merge_into(aggregate_repo, repo)
    /\ aggregate_graph_nodes' = Append(aggregate_graph_nodes, G'.attrs)
    /\ aggregate_graph_edges' = Append(aggregate_graph_edges, G'.edges)
    /\ kb' = [kb EXCEPT !.open = FALSE]
    /\ units_done' = units_done + 1
    /\ pc' = "idle"
    /\ last' = [op |-> "finish_unit", aggregate_before |-> aggregate_repo]
    /\ UNCHANGED <<docs_done, app_name, repo, stores, AggG, fuzzy_enabled, sim,
                   app_folders, aggregate_kb, prev>>

\* 4) AggG from the collected nodes and edges
aggregate_graph(node_batches, edge_batches) ==
    LET add_nodes(g, attrs) ==
            [nodes |-> g.nodes \cup DOMAIN attrs,
             attrs |-> [n \in g.nodes \cup DOMAIN attrs |->
                          IF n \in DOMAIN attrs /\ (attrs[n].set \/ n \notin g.nodes)
                          THEN attrs[n] ELSE g.attrs[n]],
             edges |-> g.edges]
        N[i \in 0..Len(node_batches)] ==
            IF i = 0 THEN EmptyGraph ELSE add_nodes(N[i - 1], node_batches[i])
        withNodes == N[Len(node_batches)]
        allEdges == UNION {edge_batches[i] : i \in 1..Len(edge_batches)}
        ends == {e[1] : e \in allEdges} \cup {e[2] : e \in allEdges}
    IN  [nodes |-> withNodes.nodes \cup ends,
         attrs |-> [n \in withNodes.nodes \cup ends |->
                      IF n \in withNodes.nodes THEN withNodes.attrs[n] ELSE NoAttrs],
         edges |-> allEdges]

Aggregate ==
    /\ pc = "idle"
    /\ units_done = Len(app_folders)
    /\ AggG' = aggregate_graph(aggregate_graph_nodes, aggregate_graph_edges)
    /\ pc' = "done"
    /\ last' = [op |-> "aggregate"]
    /\ UNCHANGED <<units_done, docs_done, app_name, repo, kb, stores, G, aggregate_repo,
                   aggregate_graph_nodes, aggregate_graph_edges, fuzzy_enabled, sim,
                   app_folders, aggregate_kb, prev>>

Next == Discover \/ StartUnit \/ ProcessDoc \/ FinishUnit \/ Aggregate

Spec == Init /\ [][Next]_vars

(***************************************************************************)
(* classify_and_extract as a function of its inputs: every modelled        *)
(* document at every modelled path, classified as a document root.         *)
(***************************************************************************)
InitClassify ==
    /\ InitRun
    /\ fuzzy_enabled = FALSE
    /\ sim = [p \in FieldPairs |-> 0]

ChooseInput ==
    /\ pc = "start"
    /\ \E file_path \in Paths :
        \/ \E yaml_data \in TypeInfoDocs \cup MeasureDocs \cup WidgetDocs :
              last' = [op |-> "input", yaml_data |-> yaml_data,
                       file_path |-> file_path, fs |-> NoFs]
        \/ \E yaml_data \in SheetDocs, fs \in {NoFs, WidgetsFs} :
              last' = [op |-> "input", yaml_data |-> yaml_data,
                       file_path |-> file_path, fs |-> fs]
    /\ pc' = "input"
    /\ UNCHANGED <<units_done, docs_done, app_name, repo, kb, stores, G, aggregate_repo,
                   aggregate_graph_nodes, aggregate_graph_edges, AggG, fuzzy_enabled,
                   sim, app_folders, aggregate_kb, prev>>

Classify ==
    /\ pc = "input"
    /\ last' = [op |-> "classify", yaml_data |-> last.yaml_data,
                file_path |-> last.file_path, fs |-> last.fs,
                result |-> classify_and_extract(last.yaml_data, last.file_path,
                                                TRUE, last.fs)]
    /\ pc' = "classified"
    /\ UNCHANGED <<units_done, docs_done, app_name, repo, kb, stores, G, aggregate_repo,
                   aggregate_graph_nodes, aggregate_graph_edges, AggG, fuzzy_enabled,
                   sim, app_folders, aggregate_kb, prev>>

NextClassify == ChooseInput \/ Classify

SpecClassify == InitClassify /\ [][NextClassify]_vars

(***************************************************************************)
(* One catalog and a sequence of resolutions against it:                   *)
(* propose_type_for_fields on raw field lists, under every similarity      *)
(* table, with and without the embedding capability.  docs_done counts the *)
(* calls; last and prev are the two most recent ones.                      *)
(***************************************************************************)
RawFieldLists == {{}, {"Title"}, {"title"}, {"Title", "qDef"}, {"qdef", "title"}}

InitCatalog ==
    /\ pc = "catalog"
    /\ units_done = 0
    /\ docs_done = 0
    /\ app_name = "AppA"
    /\ repo = <<>>
    /\ kb = [path |-> "AppA", open |-> TRUE]
    /\ stores = [p \in StorePaths |-> <<>>]
    /\ G = EmptyGraph
    /\ aggregate_repo = <<>>
    /\ aggregate_graph_nodes = <<>>
    /\ aggregate_graph_edges = <<>>
    /\ AggG = EmptyGraph
    /\ app_folders = <<"AppA">>
    /\ aggregate_kb = ClosedKb
    /\ last = NoOp
    /\ prev = NoOp
    /\ fuzzy_enabled \in BOOLEAN
    /\ sim \in SimTables

Resolved(fields, r) ==
    /\ stores' = [stores EXCEPT ![kb.path] = r.rows]
    /\ last' = [op |-> "resolve", fields |-> fields, name |-> r.name,
                rows_before |-> stores[kb.path]]
    /\ prev' = last

Resolve ==
    /\ pc = "catalog"
    /\ docs_done < MaxResolves
    /\ \E fields \in RawFieldLists :
        Resolved(fields, propose_type_for_fields(stores[kb.path], fuzzy_enabled, fields))
    /\ docs_done' = docs_done + 1
    /\ UNCHANGED <<pc, units_done, app_name, repo, kb, G, aggregate_repo,
                   aggregate_graph_nodes, aggregate_graph_edges, AggG, fuzzy_enabled,
                   sim, app_folders, aggregate_kb>>

NextCatalog == Resolve

SpecCatalog == InitCatalog /\ [][NextCatalog]_vars

(***************************************************************************)
(* The catalog through all its entry points: propose_type_for_fields,      *)
(* infer_schema_for_base_object on a BaseObject of any provisional type,   *)
(* and KnowledgeBase.add_type called directly with a name of the caller's  *)
(* choice.                                                                 *)
(***************************************************************************)
ProvisionalTypes == KNOWN_SCHEMAS \cup {"YAML_Measures"}
TypeNames == {"Custom", "UnknownType_2", "UnknownType_" \o ToString(MaxSuffix)}

InitKnowledgeBase ==
    /\ InitCatalog
    /\ sim \in UniformSimTables

Inferred(node_type, fields, r) ==
    /\ stores' = [stores EXCEPT ![kb.path] = r.rows]
    /\ last' = [op |-> "infer", node_type |-> node_type, fields |-> fields,
                name |-> r.name, rows_before |-> stores[kb.path]]

Infer ==
    /\ pc = "catalog"
    /\ docs_done < MaxResolves
    /\ \E node_type \in ProvisionalTypes, fields \in RawFieldLists :
        Inferred(node_type, fields,
                 infer_schema_for_base_object(
                     stores[kb.path], fuzzy_enabled,
                     BaseObject(Str("A"), node_type, NoPath, fields, <<>>, EmptyMap)))
    /\ docs_done' = docs_done + 1
    /\ UNCHANGED <<pc, units_done, app_name, repo, kb, G, aggregate_repo,
                   aggregate_graph_nodes, aggregate_graph_edges, AggG, fuzzy_enabled,
                   sim, app_folders, aggregate_kb, prev>>

AddType ==
    /\ pc = "catalog"
    /\ docs_done < MaxResolves
    /\ \E type_name \in TypeNames, fields \in RawFieldLists :
        /\ stores' = [stores EXCEPT ![kb.path] =
                         add_type(stores[kb.path], fuzzy_enabled, type_name, fields)]
        /\ last' = [op |-> "add_type", type_name |-> type_name, fields |-> fields,
                    rows_before |-> stores[kb.path]]
    /\ docs_done' = docs_done + 1
    /\ UNCHANGED <<pc, units_done, app_name, repo, kb, G, aggregate_repo,
                   aggregate_graph_nodes, aggregate_graph_edges, AggG, fuzzy_enabled,
                   sim, app_folders, aggregate_kb, prev>>

NextKnowledgeBase == Resolve \/ Infer \/ AddType

SpecKnowledgeBase == InitKnowledgeBase /\ [][NextKnowledgeBase]_vars

(***************************************************************************)
(* One Repository and a sequence of add_object calls on it, with           *)
(* BaseObjects of the caller's choice.  docs_done counts the calls.        *)
(***************************************************************************)
StoredObjects ==
    {BaseObject(Str(id), node_type, [dir |-> "Measures", base |-> "widget.yaml"],
                {}, depends_on, EmptyMap) :
        id \in {"A", "B"}, node_type \in {"YAML_Widget", "YAML_Dimension"},
        depends_on \in {<<>>, <<"X">>}}

InitRepository ==
    /\ InitRun
    /\ fuzzy_enabled = FALSE
    /\ sim = [p \in FieldPairs |-> 0]

AddObject ==
    /\ pc = "start"
    /\ docs_done < MaxAdds
    /\ \E obj \in StoredObjects :
        /\ repo' = add_object(repo, obj)
        /\ last' = [op |-> "add_object", obj |-> obj, repo_before |-> repo]
    /\ docs_done' = docs_done + 1
    /\ UNCHANGED <<pc, units_done, app_name, kb, stores, G, aggregate_repo,
                   aggregate_graph_nodes, aggregate_graph_edges, AggG, fuzzy_enabled,
                   sim, app_folders, aggregate_kb, prev>>

NextRepository == AddObject

SpecRepository == InitRepository /\ [][NextRepository]_vars

(***************************************************************************)
(* One catalog whose store outlives the model that wrote it: between       *)
(* resolutions, the emb_json of a stored row may be one the comparison     *)
(* fails on.                                                               *)
(***************************************************************************)
MalformEmbedding ==
    /\ pc = "catalog"
    /\ \E i \in 1..Len(stores[kb.path]) :
        /\ stores[kb.path][i].emb.has
        /\ ~comparison_raises(stores[kb.path][i].emb)
        /\ stores' = [stores EXCEPT ![kb.path][i].emb = MalformedEmb]
        /\ last' = [op |-> "malform", type_id |-> i]
    /\ UNCHANGED <<pc, units_done, docs_done, app_name, repo, kb, G, aggregate_repo,
                   aggregate_graph_nodes, aggregate_graph_edges, AggG, fuzzy_enabled,
                   sim, app_folders, aggregate_kb, prev>>

NextStoredVectors == Resolve \/ MalformEmbedding

SpecStoredVectors == InitCatalog /\ [][NextStoredVectors]_vars

(***************************************************************************)
(* _create_base_object called on descriptors of any id and provisional     *)
(* type, against one Repository and one catalog.                           *)
(***************************************************************************)
DescriptorIds == {None, Str(""), Str("A"), Str("B")}
DescriptorFields == {{}, {"Title"}, {"Title", "qDef"}}
Descriptors ==
    {[obj_id |-> id, type_name |-> t, fields |-> f, file_path |-> NoPath] :
        id \in DescriptorIds, t \in {"YAML_Widget", "YAML_Measures"}, f \in DescriptorFields}

Created(info, r) ==
    /\ repo' = r.objects
    /\ stores' = [stores EXCEPT ![kb.path] = r.rows]
    /\ last' = [op |-> "create", info |-> info, repo_before |-> repo,
                rows_before |-> stores[kb.path]]
    /\ prev' = last

CreateBaseObject ==
    /\ pc = "catalog"
    /\ docs_done < MaxResolves
    /\ \E info \in Descriptors :
        Created(info, _create_base_object(info, repo, stores[kb.path], fuzzy_enabled,
                                          EmptyMap))
    /\ docs_done' = docs_done + 1
    /\ UNCHANGED <<pc, units_done, app_name, kb, G, aggregate_repo,
                   aggregate_graph_nodes, aggregate_graph_edges, AggG, fuzzy_enabled,
                   sim, app_folders, aggregate_kb>>

NextCreate == CreateBaseObject

SpecCreate == InitKnowledgeBase /\ [][NextCreate]_vars

(***************************************************************************)
(* build_dependency_graph on a Repository of any content: keys that are    *)
(* None or empty, dependencies that are keys, the object's own id, empty   *)
(* or missing.                                                             *)
(***************************************************************************)
GraphObjects ==
    {BaseObject(id, "YAML_Widget", [dir |-> "Measures", base |-> "widget.yaml"],
                {}, depends_on, EmptyMap) :
        id \in {None, Str(""), Str("A"), Str("B")},
        depends_on \in {<<>>, <<"X">>, <<"A", "">>, <<"B", "X", "X">>}}

\* the Repositories that up to MaxAdds calls of add_object leave: objects
\* under pairwise different keys
GraphRepositories ==
    {objects \in UNION {[1..n -> GraphObjects] : n \in 0..MaxAdds} :
        \A i, j \in 1..Len(objects) : i # j => objects[i].obj_id # objects[j].obj_id}

InitGraph ==
    /\ InitRun
    /\ fuzzy_enabled = FALSE
    /\ sim = [p \in FieldPairs |-> 0]

TakeRepository ==
    /\ pc = "start"
    /\ \E objects \in GraphRepositories : repo' = objects
    /\ pc' = "repository"
    /\ last' = [op |-> "repository"]
    /\ UNCHANGED <<units_done, docs_done, app_name, kb, stores, G, aggregate_repo,
                   aggregate_graph_nodes, aggregate_graph_edges, AggG, fuzzy_enabled,
                   sim, app_folders, aggregate_kb, prev>>

BuildGraph ==
    /\ pc = "repository"
    /\ G' = build_dependency_graph(repo)
    /\ pc' = "built"
    /\ last' = [op |-> "build", repo_before |-> repo]
    /\ UNCHANGED <<units_done, docs_done, app_name, repo, kb, stores, aggregate_repo,
                   aggregate_graph_nodes, aggregate_graph_edges, AggG, fuzzy_enabled,
                   sim, app_folders, aggregate_kb, prev>>

NextGraph == TakeRepository \/ BuildGraph

SpecGraph == InitGraph /\ [][NextGraph]_vars

(***************************************************************************)
(* Properties of the insertion path and of the graph builder, over the     *)
(* runs of cli.analyze (Spec).                                             *)
(***************************************************************************)
GenericDocA ==
    Doc(QInfo(Str("chart"), Str("A")), Map([Title |-> Str("t")]),
        Absent, Absent, Absent, Absent, Absent)

\* C1: first writer wins on the insertion path.  Whatever document is pushed
\* through process_yaml_file, every Entity the Repository held before is
\* still there, at the same place, with the same type, origin path, field
\* list and dependency list; an id is never stored twice.
C1_FirstWriterWins ==
    /\ last.op = "process" =>
          /\ Len(last.repo_before) <= Len(repo)
          /\ \A i \in 1..Len(last.repo_before) : repo[i] = last.repo_before[i]
    /\ \A i, j \in 1..Len(repo) : repo[i].obj_id = repo[j].obj_id => i = j

\* a generic document with id A arrives after a widget stored under A
C1_Witness ==
    /\ last.op = "process"
    /\ last.input.yaml_data = GenericDocA
    /\ \E i \in 1..Len(last.repo_before) :
          /\ last.repo_before[i].obj_id = Str("A")
          /\ last.repo_before[i].node_type = "YAML_Widget"
          /\ last.repo_before[i].depends_on = <<"M1", "X">>
          /\ repo[i].node_type = "YAML_Widget"
    /\ repo = last.repo_before

\* C2: the graph of build_dependency_graph has no edge (x, x).
C2_NoSelfLoops ==
    \A e \in G.edges : e[1] # e[2]

\* an Entity that lists its own id among its dependencies
C2_Witness ==
    /\ last.op = "finish_unit"
    /\ \E i \in 1..Len(repo) :
          \E j \in 1..Len(repo[i].depends_on) : Str(repo[i].depends_on[j]) = repo[i].obj_id

\* the dependency ids of the unit's Repository that are not keys of it
Dangling ==
    UNION {{Str(repo[i].depends_on[j]) : j \in
               {j \in 1..Len(repo[i].depends_on) :
                   /\ repo[i].depends_on[j] # ""
                   /\ ~has_key(repo, Str(repo[i].depends_on[j]))}}
           : i \in 1..Len(repo)}

Referencing(d) ==
    {repo[i].obj_id : i \in {i \in 1..Len(repo) :
        \E j \in 1..Len(repo[i].depends_on) : Str(repo[i].depends_on[j]) = d}}

\* C3: a dependency id d that is not a Repository key is one node of the
\* built graph, of type "Unknown" with an empty origin path, and the edges
\* into d are exactly one edge e -> d per referencing Entity e.
C3_DanglingReference ==
    last.op = "finish_unit" =>
        \A d \in Dangling :
            /\ d \in G.nodes
            /\ G.attrs[d] = Attrs("Unknown", NoPath)
            /\ {e \in G.edges : e[2] = d} = {<<x, d>> : x \in Referencing(d)}

\* X is missing, referenced by two Entities, by one of them twice
C3_Witness ==
    /\ last.op = "finish_unit"
    /\ Str("X") \in Dangling
    /\ Referencing(Str("X")) = {Str("A"), Str("B")}
    /\ \E i \in 1..Len(repo) : repo[i].depends_on = <<"A", "X", "X">>
    /\ {e \in G.edges : e[2] = Str("X")} = {<<Str("A"), Str("X")>>, <<Str("B"), Str("X")>>}

\* the entries of the measures list embedded in a widget document
EmbeddedMeasures(doc) ==
    PyGet(PyGet(PyGet(doc, "Properties", EmptyMap), "qHyperCubeDef", EmptyMap),
          "qMeasures", EmptyList).v

\* the non-empty library-reference ids of the entries, in list order
NonEmptyLibraryRefs(doc) ==
    LET ms == EmbeddedMeasures(doc)
        keep == {i \in 1..Len(ms) : PyGet(ms[i], "qLibraryId", Str("")) # Str("")}
        nth(k) == CHOOSE i \in keep : Cardinality({j \in keep : j <= i}) = k
    IN  [k \in 1..Cardinality(keep) |-> ms[nth(k)].v["qLibraryId"].v]

MatchedByRule5(inp) ==
    /\ IsDict(inp.yaml_data)
    /\ Lower(basename(inp.file_path)) = "widget.yaml"
    /\ IsDict(classify_and_extract(inp.yaml_data, inp.file_path, TRUE, inp.fs))
    /\ classify_and_extract(inp.yaml_data, inp.file_path, TRUE, inp.fs).v.type_name
          = "YAML_Widget"

WidgetId(inp) == inp.yaml_data.v["qInfo"].v["qId"]

\* C9: the Widget Entity stored for a "widget" document matched by rule 5
\* depends on exactly the non-empty library-reference ids of its embedded
\* measures list, in list order; the graph built for the unit has an edge
\* widget -> m for every dependency m of a Widget Entity other than its own
\* id, whether or not m is a Repository key.
C9_WidgetDependencyEdge ==
    /\ (last.op = "process" /\ MatchedByRule5(last.input)
            /\ ~has_key(last.repo_before, WidgetId(last.input))) =>
          /\ Len(repo) = Len(last.repo_before) + 1
          /\ repo[Len(repo)].obj_id = WidgetId(last.input)
          /\ repo[Len(repo)].node_type = "YAML_Widget"
          /\ repo[Len(repo)].depends_on = NonEmptyLibraryRefs(last.input.yaml_data)
    /\ last.op = "finish_unit" =>
          \A i \in 1..Len(repo) :
              repo[i].node_type = "YAML_Widget" =>
                  \A j \in 1..Len(repo[i].depends_on) :
                      Str(repo[i].depends_on[j]) # repo[i].obj_id =>
                          <<repo[i].obj_id, Str(repo[i].depends_on[j])>> \in G.edges

\* widget A references M1, which is a key, and X, which is not
C9_Witness ==
    /\ last.op = "finish_unit"
    /\ has_key(repo, Str("M1"))
    /\ ~has_key(repo, Str("X"))
    /\ \E i \in 1..Len(repo) :
          /\ repo[i].obj_id = Str("A")
          /\ repo[i].node_type = "YAML_Widget"
          /\ repo[i].depends_on = <<"M1", "X">>
    /\ {<<Str("A"), Str("M1")>>, <<Str("A"), Str("X")>>} \subseteq G.edges

\* the document roots of an input, and whether each of them is classified
\* into descriptors that all have an absent or empty id
Roots(inp) ==
    IF IsList(inp.yaml_data)
    THEN {inp.yaml_data.v[i] : i \in {i \in 1..Len(inp.yaml_data.v) :
                                          IsDict(inp.yaml_data.v[i])}}
    ELSE IF IsDict(inp.yaml_data) THEN {inp.yaml_data} ELSE {}

NoUsableId(descriptor) ==
    descriptor.obj_id = None \/ descriptor.obj_id = Str("")

OnlyIdlessDescriptors(inp) ==
    /\ Roots(inp) # {}
    /\ \A root \in Roots(inp) :
          LET info == classify_and_extract(root, inp.file_path, TRUE, inp.fs)
          IN  \/ IsDict(info) /\ NoUsableId(info.v)
              \/ IsList(info) /\ \A k \in 1..Len(info.v) : NoUsableId(info.v[k])

\* C10: every key of the per-unit Repository and of the aggregate Repository
\* is a non-empty identifier, and a document whose descriptors all have an
\* absent or empty id leaves the Repository unchanged.
C10_NoEmptyIdentifier ==
    /\ \A i \in 1..Len(repo) : ~NoUsableId(repo[i])
    /\ \A i \in 1..Len(aggregate_repo) : ~NoUsableId(aggregate_repo[i])
    /\ (last.op = "process" /\ OnlyIdlessDescriptors(last.input)) =>
          repo = last.repo_before

\* the masterobject documents without an id and with an empty id arrive at a
\* Repository that holds Entities, and an aggregate Repository exists
C10_Witness ==
    /\ last.op = "process"
    /\ OnlyIdlessDescriptors(last.input)
    /\ IsList(last.input.yaml_data)
    /\ Len(last.repo_before) > 0
    /\ Len(aggregate_repo) > 0

(***************************************************************************)
(* Properties of classify_and_extract, over SpecClassify.                  *)
(***************************************************************************)
\* the type tag, the measures list and the property keys of a document
TypeInfoOf(doc) ==
    IF IsDict(PyGet(doc, "qInfo", None)) THEN doc.v["qInfo"]
    ELSE IF IsDict(PyGet(doc, "Properties", None))
            /\ IsDict(PyGet(doc.v["Properties"], "qInfo", None))
    THEN doc.v["Properties"].v["qInfo"]
    ELSE EmptyMap

MeasuresListOf(doc) ==
    IF IsDict(PyGet(doc, "qHyperCubeDef", None))
    THEN PyGet(doc.v["qHyperCubeDef"], "qMeasures", None)
    ELSE None

PropertyKeysOf(doc) ==
    IF IsDict(PyGet(doc, "Properties", None)) THEN DOMAIN doc.v["Properties"].v ELSE {}

Rule3Predicate(doc) ==
    /\ IsDict(doc)
    /\ PyGet(TypeInfoOf(doc), "qType", None) \in
          {Str("measure"), Str("mastermeasure"), Str("masterobject")}
    /\ IsList(MeasuresListOf(doc))

Usable(x) == x # None /\ x # Absent /\ x # Str("")

\* an entry's own id, else its library-reference id, else its title
EntryId(m) ==
    LET own == IF IsDict(m) /\ IsDict(PyGet(m, "qInfo", None))
               THEN PyGet(m.v["qInfo"], "qId", None) ELSE None
        lib == IF IsDict(m) THEN PyGet(m, "qLibraryId", None) ELSE None
        title == IF IsDict(m) /\ IsDict(PyGet(m, "qMetaDef", None))
                 THEN PyGet(m.v["qMetaDef"], "title", None) ELSE None
    IN  IF Usable(own) THEN own ELSE IF Usable(lib) THEN lib ELSE title

\* C4: every Mapping classified as a document root yields at least one
\* descriptor, whatever its origin path and content.
C4_FallbackCoverage ==
    (last.op = "classify" /\ IsDict(last.yaml_data)) =>
        \/ IsDict(last.result)
        \/ IsList(last.result) /\ Len(last.result.v) >= 1

\* a document with a scalar property block and no top-level type-info, at a
\* path no rule names: reading its type-info raises
C4_Witness ==
    /\ last.op = "classify"
    /\ last.yaml_data = Map([Properties |-> Str("text")])
    /\ last.file_path = [dir |-> "Measures", base |-> "App.yaml"]
    /\ IsRaise(last.result)

\* C7: a root document named "measure" that satisfies the rule-3 predicate
\* yields one MasterMeasure descriptor per entry of a non-empty measures
\* list, in list order, with the entry's id; and one MasterObject descriptor
\* for the container when the list is empty.
C7_MeasuresExplosion ==
    (last.op = "classify" /\ Lower(basename(last.file_path)) = "measure.yaml"
        /\ Rule3Predicate(last.yaml_data)) =>
        LET ms == MeasuresListOf(last.yaml_data).v
        IN  /\ IsList(last.result)
            /\ IF Len(ms) = 0
               THEN /\ Len(last.result.v) = 1
                    /\ last.result.v[1].type_name = "YAML_MasterObject"
               ELSE /\ Len(last.result.v) = Len(ms)
                    /\ \A i \in 1..Len(ms) :
                          /\ last.result.v[i].type_name = "YAML_MasterMeasure"
                          /\ last.result.v[i].obj_id = EntryId(ms[i])

\* a measures list with a scalar entry, outside any "variables" directory
C7_Witness ==
    /\ last.op = "classify"
    /\ last.file_path = [dir |-> "Measures", base |-> "Measure.yaml"]
    /\ Rule3Predicate(last.yaml_data)
    /\ MeasuresListOf(last.yaml_data) = List(<<Str("text")>>)
    /\ IsRaise(last.result)

\* C8: a root document named "masterobject" that satisfies the rule-3
\* predicate yields exactly one MasterObject descriptor for the container,
\* with the id of the type-info and the property keys as fields, whatever the
\* measures list holds.
C8_MasterobjectSingular ==
    (last.op = "classify" /\ Lower(basename(last.file_path)) = "masterobject.yaml"
        /\ Rule3Predicate(last.yaml_data)) =>
        /\ IsDict(last.result)
        /\ last.result.v.type_name = "YAML_MasterObject"
        /\ last.result.v.obj_id = PyGet(TypeInfoOf(last.yaml_data), "qId", None)
        /\ last.result.v.fields = PropertyKeysOf(last.yaml_data)

\* a container with a scalar property block, outside any "variables" directory
C8_Witness ==
    /\ last.op = "classify"
    /\ last.file_path = [dir |-> "Measures", base |-> "MasterObject.yaml"]
    /\ Rule3Predicate(last.yaml_data)
    /\ PyGet(last.yaml_data, "Properties", None) = Str("text")
    /\ IsRaise(last.result)

(***************************************************************************)
(* Properties of the type resolution, over SpecCatalog.                    *)
(***************************************************************************)
\* a raw field list as a lowercased set
Lowered(fields) == {Lower(f) : f \in fields}

Catalog == stores[kb.path]

\* C5: resolving the same field set (as a lowercased set) twice in a row
\* against one catalog returns the same type name both times, the second
\* resolution adds no entry, and at most one entry has that field set.
C5_ExactMatchIdempotence ==
    (last.op = "resolve" /\ prev.op = "resolve"
        /\ Lowered(last.fields) = Lowered(prev.fields)) =>
        /\ last.name = prev.name
        /\ Catalog = last.rows_before
        /\ Cardinality({i \in 1..Len(Catalog) :
                           Catalog[i].fields = Lowered(last.fields)}) <= 1

\* {Title, qDef} mints UnknownType_2, then {qdef, title} resolves to it
C5_Witness ==
    /\ last.op = "resolve"
    /\ prev.op = "resolve"
    /\ prev.fields = {"Title", "qDef"}
    /\ last.fields = {"qdef", "title"}
    /\ Len(prev.rows_before) = 1
    /\ Len(Catalog) = 2
    /\ prev.name = "UnknownType_2"
    /\ last.name = "UnknownType_2"

\* the similarities of a field set to the entries of a catalog
Similarities(fieldset, rows) == {sim[{fieldset, rows[i].fields}] : i \in 1..Len(rows)}

MaxSimilarity(fieldset, rows) ==
    CHOOSE m \in Similarities(fieldset, rows) : \A x \in Similarities(fieldset, rows) : x <= m

NoExactMatch(fieldset, rows) == \A i \in 1..Len(rows) : rows[i].fields # fieldset

\* C6: with the embedding capability and no exact match, a field set whose
\* maximum similarity to a stored entry is exactly 0.9 resolves to the name
\* of an entry at that similarity and adds no entry; one whose maximum
\* similarity is 0.8999 resolves to a new type name that is persisted with
\* that field set.
C6_FuzzyThresholdBoundary ==
    (last.op = "resolve" /\ fuzzy_enabled /\ Len(last.rows_before) > 0
        /\ NoExactMatch(Lowered(last.fields), last.rows_before)) =>
        /\ MaxSimilarity(Lowered(last.fields), last.rows_before) = 9000 =>
              /\ Catalog = last.rows_before
              /\ \E i \in 1..Len(Catalog) :
                    /\ sim[{Lowered(last.fields), Catalog[i].fields}] = 9000
                    /\ Catalog[i].type_name = last.name
        /\ MaxSimilarity(Lowered(last.fields), last.rows_before) = 8999 =>
              /\ \A i \in 1..Len(last.rows_before) :
                    last.rows_before[i].type_name # last.name
              /\ Len(Catalog) = Len(last.rows_before) + 1
              /\ SubSeq(Catalog, 1, Len(last.rows_before)) = last.rows_before
              /\ Catalog[Len(Catalog)].type_name = last.name
              /\ Catalog[Len(Catalog)].fields = Lowered(last.fields)

\* {title} at 0.8999 from the only entry mints UnknownType_2; {title, qdef}
\* at 0.9 from that entry, and further from the other, resolves to it
C6_Witness ==
    /\ fuzzy_enabled
    /\ last.op = "resolve"
    /\ prev.op = "resolve"
    /\ Len(prev.rows_before) = 1
    /\ NoExactMatch(Lowered(prev.fields), prev.rows_before)
    /\ MaxSimilarity(Lowered(prev.fields), prev.rows_before) = 8999
    /\ prev.name = "UnknownType_2"
    /\ NoExactMatch(Lowered(last.fields), last.rows_before)
    /\ MaxSimilarity(Lowered(last.fields), last.rows_before) = 9000
    /\ sim[{Lowered(last.fields), last.rows_before[1].fields}] < 9000
    /\ last.name = "UnknownType_2"
    /\ Len(Catalog) = 2

(***************************************************************************)
(* Properties of the catalog under all its entry points, over              *)
(* SpecKnowledgeBase.                                                      *)
(***************************************************************************)
\* C11: when the provisional type of a BaseObject is one of the six names of
\* KNOWN_SCHEMAS, infer_schema_for_base_object returns that name and the
\* catalog after the call is the catalog before it, whatever the fields and
\* whatever the catalog holds.
C11_CanonicalBypass ==
    (last.op = "infer" /\ last.node_type \in KNOWN_SCHEMAS) =>
        /\ last.name = last.node_type
        /\ Catalog = last.rows_before

\* a YAML_Widget object whose field set is stored in the catalog under
\* another name, and one whose field set is not in the catalog at all
C11_Witness ==
    /\ last.op = "infer"
    /\ last.node_type = "YAML_Widget"
    /\ last.name = "YAML_Widget"
    /\ Len(Catalog) = 2
    /\ Catalog[1].fields = Lowered(last.fields)
    /\ Catalog[1].type_name = "UnknownType_1"
    /\ Catalog[2].type_name = "Custom"

(***************************************************************************)
(* The rule chain of classify_and_extract against the rule table, over     *)
(* SpecClassify.                                                           *)
(***************************************************************************)
TypeTagOf(doc) == PyGet(TypeInfoOf(doc), "qType", None)

HasDefinition(doc) == "qDefinition" \in PropertyKeysOf(doc) \/ PyIn("Definition", doc)

\* the predicates of rules 1, 2, 5 and 6 of the rule table
Rule1Predicate(doc, file_path) ==
    /\ Lower(parent_dir_name(file_path)) = "variables"
    /\ HasDefinition(doc)
    /\ TypeTagOf(doc) = Str("variable") \/ PyIn("Name", doc)

Rule2Predicate(doc) ==
    /\ TypeTagOf(doc) = Str("dimension")
    /\ IsDict(PyGet(doc, "Properties", None))
    /\ IsDict(PyGet(doc.v["Properties"], "qDim", None))

Rule5Predicate(doc) ==
    \/ StrIn(TypeTagOf(doc), {"visualization", "object"})
    \/ IsStr(TypeTagOf(doc)) /\ StartsWithVizlib(TypeTagOf(doc).v)
    \/ PropertyKeysOf(doc) \cap {"visualization", "template"} # {}

Rule6Predicate(doc) == TypeTagOf(doc) = Str("sheet")

\* the number of the first rule of the table whose predicate holds
FirstRule(doc, file_path) ==
    LET fname == Lower(basename(file_path))
    IN  IF Rule1Predicate(doc, file_path) THEN 1
        ELSE IF fname = "dimension.yaml" /\ Rule2Predicate(doc) THEN 2
        ELSE IF fname = "measure.yaml" /\ Rule3Predicate(doc) THEN 3
        ELSE IF fname = "masterobject.yaml" /\ Rule3Predicate(doc) THEN 4
        ELSE IF fname = "widget.yaml" /\ Rule5Predicate(doc) THEN 5
        ELSE IF fname = "sheet.yaml" /\ Rule6Predicate(doc) THEN 6
        ELSE 7

\* what the extractor of rule k returns
ExtractionOf(k, doc, file_path, fs) ==
    CASE k = 1 -> extract_variable_info(doc, file_path)
      [] k = 2 -> extract_dimension_info(doc, file_path)
      [] k = 3 -> extract_master_measure_info(doc, file_path)
      [] k = 4 -> masterobject_info(doc, file_path)
      [] k = 5 -> extract_widget_info(doc, file_path)
      [] k = 6 -> extract_sheet_info(doc, file_path, fs)
      [] OTHER -> fallback_info(doc, file_path)

\* C12: for every Mapping classified as a document root, the result is the
\* descriptor (or descriptors) of the extractor of the first rule, in the
\* order 1 Variable .. 7 fallback, whose predicate holds, and nothing else.
C12_StrictPrecedence ==
    (last.op = "classify" /\ IsDict(last.yaml_data)) =>
        /\ ~IsRaise(last.result)
        /\ last.result = ExtractionOf(FirstRule(last.yaml_data, last.file_path),
                                      last.yaml_data, last.file_path, last.fs)

\* a dimension document named dimension.yaml in a "variables" directory,
\* with a Definition and neither a Name nor the type tag "variable": the
\* first rule of the table that holds is rule 2, the result is a Variable
C12_Witness ==
    /\ last.op = "classify"
    /\ last.file_path = [dir |-> "Variables", base |-> "dimension.yaml"]
    /\ ~Rule1Predicate(last.yaml_data, last.file_path)
    /\ Rule2Predicate(last.yaml_data)
    /\ FirstRule(last.yaml_data, last.file_path) = 2
    /\ IsDict(last.result)
    /\ last.result.v.type_name = "YAML_Variable"

\* the order of the chain itself: on the documents where no predicate and
\* no extractor raises and rule 1 is decided alike by the table and by
\* is_variable, the result is the extraction of the first rule that holds
RuleOrderOnly ==
    (last.op = "classify" /\ IsDict(last.yaml_data) /\ ~IsRaise(last.result)
        /\ (Lower(parent_dir_name(last.file_path)) = "variables" =>
               (HasDefinition(last.yaml_data) =>
                   Rule1Predicate(last.yaml_data, last.file_path)))) =>
        last.result = ExtractionOf(FirstRule(last.yaml_data, last.file_path),
                                   last.yaml_data, last.file_path, last.fs)

(***************************************************************************)
(* Properties of the aggregation, over the runs of cli.analyze (Spec).     *)
(***************************************************************************)
KeysOf(objects) == {objects[i].obj_id : i \in 1..Len(objects)}

EntityOf(objects, key) == objects[CHOOSE i \in 1..Len(objects) : objects[i].obj_id = key]

\* C13: when a unit is merged, every Entity the aggregate Repository held
\* from the earlier units is still there unchanged, also when the unit's
\* Repository holds an Entity with the same id; the ids the aggregate did
\* not hold get the unit's Entity; and the aggregate's key set is the union
\* of what it held and the unit's key set.  By induction over the units, the
\* aggregate holds for every id the Entity of the earliest unit with that id
\* and its key set is the union of the per-unit key sets.
C13_AggregateFirstWriterWins ==
    last.op = "finish_unit" =>
        /\ \A i \in 1..Len(last.aggregate_before) :
              aggregate_repo[i] = last.aggregate_before[i]
        /\ KeysOf(aggregate_repo) = KeysOf(last.aggregate_before) \cup KeysOf(repo)
        /\ \A k \in KeysOf(repo) \ KeysOf(last.aggregate_before) :
              EntityOf(aggregate_repo, k) = EntityOf(repo, k)
        /\ \A i, j \in 1..Len(aggregate_repo) :
              aggregate_repo[i].obj_id = aggregate_repo[j].obj_id => i = j

\* the second unit holds a generic Entity A and an Entity the first unit did
\* not have; the first unit's A is a Widget
C13_Witness ==
    /\ last.op = "finish_unit"
    /\ units_done = 2
    /\ has_key(last.aggregate_before, Str("A"))
    /\ has_key(repo, Str("A"))
    /\ EntityOf(last.aggregate_before, Str("A")).node_type = "YAML_Widget"
    /\ EntityOf(repo, Str("A")).node_type # "YAML_Widget"
    /\ EntityOf(aggregate_repo, Str("A")).node_type = "YAML_Widget"
    /\ KeysOf(repo) \ KeysOf(last.aggregate_before) # {}

(***************************************************************************)
(* Error handling of a run, over Spec.                                     *)
(***************************************************************************)
\* C14: no document halts the run.  Whatever document is loaded, the call of
\* process_yaml_file returns, the unit goes on with its next document (or
\* with its graph and the merge), and the run never stops inside a unit.
C14_NoDocumentHaltsRun ==
    /\ pc # "crashed"
    /\ last.op = "process" => (~last.raised /\ pc = "unit")

\* a Mapping with a scalar property block, the second document of the
\* first of two units: the exception leaves cli.analyze, with one Entity in
\* the unit's Repository, no graph, an empty aggregate and a unit not started
C14_Witness ==
    /\ last.op = "process"
    /\ last.input.yaml_data = Map([Properties |-> Str("text")])
    /\ last.raised
    /\ pc = "crashed"
    /\ Len(last.repo_before) > 0
    /\ repo = last.repo_before
    /\ units_done = 0
    /\ Len(app_folders) = 2
    /\ docs_done < MaxDocs
    /\ aggregate_repo = <<>>
    /\ AggG = EmptyGraph
    /\ ~ENABLED Next

(***************************************************************************)
(* Type resolution without the embedding capability, over SpecCatalog.     *)
(***************************************************************************)
ExactEntries(fieldset, rows) == {i \in 1..Len(rows) : rows[i].fields = fieldset}

UnknownTypeNames == {"UnknownType_" \o ToString(n) : n \in 1..(MaxResolves + 1)}

\* C15: with fuzzy_enabled false, propose_type_for_fields returns the name
\* of an entry with exactly the field set when the catalog holds one, and
\* adds nothing; otherwise it returns a new UnknownType name and the catalog
\* gains exactly one entry, with that name, the lowercased field set and no
\* embedding, however similar the field set is to a stored one.
C15_DegradedMode ==
    (last.op = "resolve" /\ ~fuzzy_enabled) =>
        IF ExactEntries(Lowered(last.fields), last.rows_before) # {}
        THEN /\ Catalog = last.rows_before
             /\ \E i \in ExactEntries(Lowered(last.fields), last.rows_before) :
                   last.rows_before[i].type_name = last.name
        ELSE /\ last.name \in UnknownTypeNames
             /\ \A i \in 1..Len(last.rows_before) :
                   last.rows_before[i].type_name # last.name
             /\ Catalog = Append(last.rows_before,
                                 [type_id   |-> Len(last.rows_before) + 1,
                                  type_name |-> last.name,
                                  fields    |-> Lowered(last.fields),
                                  emb       |-> NoEmb])

\* without embeddings, {Title, qDef} is minted next to {title} although the
\* two are at similarity 0.95, and {qdef, title} then resolves to it
C15_Witness ==
    /\ ~fuzzy_enabled
    /\ last.op = "resolve"
    /\ prev.op = "resolve"
    /\ sim[{F_TITLE, F_TITLE_QDEF}] = 9500
    /\ prev.rows_before = <<[type_id |-> 1, type_name |-> "UnknownType_1",
                             fields |-> F_TITLE, emb |-> NoEmb]>>
    /\ prev.fields = {"Title", "qDef"}
    /\ prev.name = "UnknownType_2"
    /\ last.fields = {"qdef", "title"}
    /\ last.name = "UnknownType_2"
    /\ Len(Catalog) = 2
    /\ Catalog[2].emb = NoEmb

(***************************************************************************)
(* Minting, over SpecKnowledgeBase.                                        *)
(***************************************************************************)
\* the numeric suffix of a type name, 0 when it has none
SuffixOf(type_name) ==
    LET S == {n \in 1..(MaxSuffix + MaxResolves) :
                 type_name = "UnknownType_" \o ToString(n)}
    IN  IF S = {} THEN 0 ELSE CHOOSE n \in S : TRUE

LargestSuffix(rows) ==
    LET S == {SuffixOf(rows[i].type_name) : i \in 1..Len(rows)} \cup {0}
    IN  CHOOSE m \in S : \A x \in S : x <= m

\* C16: when propose_type_for_fields finds neither an exact nor a fuzzy
\* match, it returns UnknownType_N with N one more than the largest numeric
\* suffix among the names in the catalog, and the catalog gains one entry
\* with that name and the lowercased field set; on every catalog built by
\* add_type and resolutions.
C16_Minting ==
    (last.op = "resolve"
        /\ ExactEntries(Lowered(last.fields), last.rows_before) = {}
        /\ find_candidate_type(last.rows_before, fuzzy_enabled, Lowered(last.fields),
                               THRESHOLD) = 0) =>
        /\ last.name = "UnknownType_" \o ToString(LargestSuffix(last.rows_before) + 1)
        /\ Len(Catalog) = Len(last.rows_before) + 1
        /\ SubSeq(Catalog, 1, Len(last.rows_before)) = last.rows_before
        /\ Catalog[Len(Catalog)].type_name = last.name
        /\ Catalog[Len(Catalog)].fields = Lowered(last.fields)

\* add_type("UnknownType_2", ...) on an empty catalog, then a resolution of
\* a field set that matches nothing: the name returned is UnknownType_2, the
\* entry of that name has another field set, and nothing is added
C16_Witness ==
    /\ last.op = "resolve"
    /\ Len(last.rows_before) = 1
    /\ last.rows_before[1].type_name = "UnknownType_2"
    /\ last.rows_before[1].fields # Lowered(last.fields)
    /\ find_candidate_type(last.rows_before, fuzzy_enabled, Lowered(last.fields),
                           THRESHOLD) = 0
    /\ last.name = "UnknownType_2"
    /\ Catalog = last.rows_before

\* on the catalogs built by resolutions alone the suffix of every name is
\* its type_id, and the statement of C16 holds
MintingByResolutionsOnly ==
    (last.op = "resolve"
        /\ ExactEntries(Lowered(last.fields), last.rows_before) = {}
        /\ find_candidate_type(last.rows_before, fuzzy_enabled, Lowered(last.fields),
                               THRESHOLD) = 0) =>
        /\ last.name = "UnknownType_" \o ToString(LargestSuffix(last.rows_before) + 1)
        /\ Catalog = Append(last.rows_before,
                            [type_id   |-> Len(last.rows_before) + 1,
                             type_name |-> last.name,
                             fields    |-> Lowered(last.fields),
                             emb       |-> IF fuzzy_enabled THEN Emb(Lowered(last.fields))
                                           ELSE NoEmb])

(***************************************************************************)
(* Sheets, over the runs of cli.analyze (Spec).                            *)
(***************************************************************************)
Sheets(objects) == {i \in 1..Len(objects) : objects[i].node_type = "YAML_Sheet"}

\* C17: a Sheet Entity has an empty dependency list, whatever widgets the
\* sibling Widgets directory holds, and the graph built from the unit's
\* Repository has no edge that leaves it.
C17_SheetContainment ==
    /\ \A i \in Sheets(repo) : repo[i].depends_on = <<>>
    /\ last.op = "finish_unit" =>
          \A i \in Sheets(repo) : \A e \in G.edges : e[1] # repo[i].obj_id

\* the sheet S1, whose Widgets directory holds the widget A, in a unit whose
\* Repository also holds the Widget A and its edges
C17_Witness ==
    /\ last.op = "finish_unit"
    /\ has_key(repo, Str("S1"))
    /\ EntityOf(repo, Str("S1")).node_type = "YAML_Sheet"
    /\ EntityOf(repo, Str("S1")).file_path = [dir |-> "Measures", base |-> "sheet.yaml"]
    /\ sheet_objects_of(SheetWidgetsFs) = <<Str("A")>>
    /\ has_key(repo, Str("A"))
    /\ EntityOf(repo, Str("A")).node_type = "YAML_Widget"
    /\ Str("S1") \in G.nodes
    /\ \E e \in G.edges : e[1] = Str("A")

(***************************************************************************)
(* Repository.add_object on its own, over SpecRepository.                  *)
(***************************************************************************)
\* C18: add_object leaves every Entity the Repository already holds as it
\* is, also when the new Entity has the id of a stored one.
C18_AddObjectNeverOverwrites ==
    last.op = "add_object" =>
        /\ Len(repo) >= Len(last.repo_before)
        /\ \A i \in 1..Len(last.repo_before) : repo[i] = last.repo_before[i]

\* a Dimension A is added to a Repository that holds the Widget A with the
\* dependency X: the Repository now holds the Dimension under A
C18_Witness ==
    /\ last.op = "add_object"
    /\ has_key(last.repo_before, last.obj.obj_id)
    /\ last.obj.obj_id = Str("A")
    /\ last.obj.node_type = "YAML_Dimension"
    /\ EntityOf(last.repo_before, Str("A")).node_type = "YAML_Widget"
    /\ EntityOf(last.repo_before, Str("A")).depends_on = <<"X">>
    /\ EntityOf(repo, Str("A")) = last.obj
    /\ Len(repo) = Len(last.repo_before)

(***************************************************************************)
(* The nodes of the graph, over the runs of cli.analyze (Spec).            *)
(***************************************************************************)
\* C19: in the graph built from the unit's Repository, every Entity with a
\* non-empty id is a node whose attributes are the Entity's type name and
\* origin path, whatever the dependency lists hold; a node with the type
\* "Unknown" and an empty origin is not a key of the Repository.
C19_EntityNodesKeepAttributes ==
    last.op = "finish_unit" =>
        /\ \A i \in 1..Len(repo) :
              Truthy(repo[i].obj_id) =>
                  /\ repo[i].obj_id \in G.nodes
                  /\ G.attrs[repo[i].obj_id] = Attrs(repo[i].node_type, repo[i].file_path)
        /\ \A n \in G.nodes :
              G.attrs[n] = Attrs("Unknown", NoPath) => ~has_key(repo, n)

\* the Widget A of Variables/widget.yaml lists A among its dependencies: its
\* node carries the attributes of a placeholder
C19_Witness ==
    /\ last.op = "finish_unit"
    /\ has_key(repo, Str("A"))
    /\ EntityOf(repo, Str("A")).node_type = "YAML_Widget"
    /\ EntityOf(repo, Str("A")).file_path = [dir |-> "Variables", base |-> "widget.yaml"]
    /\ EntityOf(repo, Str("A")).depends_on = <<"A", "X", "X">>
    /\ G.attrs[Str("A")] = Attrs("Unknown", NoPath)
    /\ G.attrs[Str("X")] = Attrs("Unknown", NoPath)

\* apart from the Entities that list their own id, the statement holds
EntityNodesWithoutSelfReference ==
    last.op = "finish_unit" =>
        /\ \A i \in 1..Len(repo) :
              (/\ Truthy(repo[i].obj_id)
               /\ \A j \in 1..Len(repo[i].depends_on) :
                     Str(repo[i].depends_on[j]) # repo[i].obj_id) =>
                  /\ repo[i].obj_id \in G.nodes
                  /\ G.attrs[repo[i].obj_id] = Attrs(repo[i].node_type, repo[i].file_path)
        /\ \A n \in G.nodes :
              (G.attrs[n] = Attrs("Unknown", NoPath) /\ has_key(repo, n)) =>
                  \E j \in 1..Len(EntityOf(repo, n).depends_on) :
                      Str(EntityOf(repo, n).depends_on[j]) = n

(***************************************************************************)
(* The aggregate graph, over the runs of cli.analyze (Spec).               *)
(***************************************************************************)
\* the units, in processing order, whose graph has the node n
UnitsWithNode(n) ==
    {i \in 1..Len(aggregate_graph_nodes) : n \in DOMAIN aggregate_graph_nodes[i]}

FirstUnitWithNode(n) == CHOOSE i \in UnitsWithNode(n) : \A j \in UnitsWithNode(n) : i <= j

\* C20: every node of the aggregate graph carries the type name and origin
\* path it has in the graph of the earliest-processed unit that has it; a
\* node that is an Entity there is not a placeholder in the aggregate.
C20_AggregateGraphEarlierWins ==
    last.op = "aggregate" =>
        \A n \in AggG.nodes :
            UnitsWithNode(n) # {} =>
                AggG.attrs[n] = aggregate_graph_nodes[FirstUnitWithNode(n)][n]

\* A is a MasterMeasure of the first unit; the second unit only refers to A
\* from its Widget B: the aggregate graph has A as a placeholder, while the
\* aggregate Repository holds the MasterMeasure
C20_Witness ==
    /\ last.op = "aggregate"
    /\ Len(aggregate_graph_nodes) = 2
    /\ Str("A") \in DOMAIN aggregate_graph_nodes[1]
    /\ aggregate_graph_nodes[1][Str("A")].type_name = "YAML_MasterMeasure"
    /\ Str("A") \in DOMAIN aggregate_graph_nodes[2]
    /\ aggregate_graph_nodes[2][Str("A")] = Attrs("Unknown", NoPath)
    /\ <<Str("B"), Str("A")>> \in AggG.edges
    /\ AggG.attrs[Str("A")] = Attrs("Unknown", NoPath)
    /\ has_key(aggregate_repo, Str("A"))
    /\ EntityOf(aggregate_repo, Str("A")).node_type = "YAML_MasterMeasure"

(***************************************************************************)
(* What a document contributes, over the runs of cli.analyze (Spec).       *)
(***************************************************************************)
\* the root nodes of a document: the Mapping itself, or the Mapping elements
\* of a Sequence, in order
RootNodes(yaml_data) ==
    IF IsDict(yaml_data) THEN <<yaml_data>>
    ELSE IF IsList(yaml_data)
    THEN SelectSeq(yaml_data.v, LAMBDA x : IsDict(x))
    ELSE <<>>

\* the Repository and catalog after the descriptors of the root nodes alone
\* went through the insertion path, nothing below a root being looked at
RootsOnly(inp, objects, rows, fuzzy) ==
    LET roots == RootNodes(inp.yaml_data)
        F[i \in 0..Len(roots)] ==
            IF i = 0 THEN Scanned(objects, rows, FALSE)
            ELSE IF F[i - 1].raised THEN F[i - 1]
            ELSE create_from(classify_and_extract(roots[i], inp.file_path, TRUE, inp.fs),
                             F[i - 1].objects, F[i - 1].rows, fuzzy, roots[i])
    IN  F[Len(roots)]

\* an input reduced to its document and origin path, the sibling Widgets
\* directory left out
RootAndPath(inp) == [inp EXCEPT !.fs = NoFs]

\* the Mappings below the roots of a document, two levels deep
NestedNodes(yaml_data) ==
    LET roots == {RootNodes(yaml_data)[i] : i \in 1..Len(RootNodes(yaml_data))}
        below == UNION {nested_dicts(r) : r \in roots}
    IN  below \cup UNION {nested_dicts(n) : n \in below}

\* C21: a document that is processed changes the Repository and the catalog
\* exactly as the descriptors of its root nodes, classified with is_root
\* true, do; the Mappings nested in it yield no descriptor; a Scalar root
\* changes nothing.
C21_OnlyRootsClassified ==
    (last.op = "process" /\ Truthy(last.input.yaml_data)) =>
        /\ repo = RootsOnly(RootAndPath(last.input), last.repo_before,
                            last.rows_before, fuzzy_enabled).objects
        /\ Catalog = RootsOnly(RootAndPath(last.input), last.repo_before,
                               last.rows_before, fuzzy_enabled).rows
        /\ \A n \in NestedNodes(last.input.yaml_data) :
              classify_and_extract(n, last.input.file_path, FALSE, last.input.fs) = None
        /\ RootNodes(last.input.yaml_data) = <<>> =>
              (repo = last.repo_before /\ Catalog = last.rows_before)

\* the measure document, whose qInfo, qHyperCubeDef and list entries are
\* Mappings that the fallback rule would take as roots, adds M1 and A only
C21_Witness ==
    /\ last.op = "process"
    /\ ~last.raised
    /\ last.input.file_path = [dir |-> "Measures", base |-> "Measure.yaml"]
    /\ Cardinality(NestedNodes(last.input.yaml_data)) >= 4
    /\ \E n \in NestedNodes(last.input.yaml_data) :
          IsDict(classify_and_extract(n, last.input.file_path, TRUE, last.input.fs))
    /\ last.repo_before = <<>>
    /\ Len(repo) = 2
    /\ KeysOf(repo) = {Str("M1"), Str("A")}

(***************************************************************************)
(* Rule 1 of the chain, over SpecClassify.                                 *)
(***************************************************************************)
IsVariableDescriptor(result) == IsDict(result) /\ result.v.type_name = "YAML_Variable"

\* C22: a Mapping root under a directory named "variables" yields a Variable
\* descriptor exactly when it has a definition field together with the type
\* tag "variable" or with a Name; the descriptor's id is then the Name, or
\* the sentinel when there is none.
C22_VariableRulePredicate ==
    (last.op = "classify" /\ IsDict(last.yaml_data)
        /\ Lower(parent_dir_name(last.file_path)) = "variables") =>
        /\ IsVariableDescriptor(last.result) <=>
              Rule1Predicate(last.yaml_data, last.file_path)
        /\ IsVariableDescriptor(last.result) =>
              last.result.v.obj_id = Or(PyGet(last.yaml_data, "Name", None),
                                        Str("<UnnamedVariable>"))

\* a document with a Definition, no Name and no type-info at
\* Variables/App.yaml is taken by rule 1
C22_Witness ==
    /\ last.op = "classify"
    /\ last.file_path = [dir |-> "Variables", base |-> "App.yaml"]
    /\ last.yaml_data = Map([Definition |-> Str("=1")])
    /\ ~Rule1Predicate(last.yaml_data, last.file_path)
    /\ IsVariableDescriptor(last.result)
    /\ last.result.v.obj_id = Str("<UnnamedVariable>")

\* apart from the documents without Name and type tag, and from those on
\* which classification raises, rule 1 matches as stated
VariableRuleOtherwise ==
    (last.op = "classify" /\ IsDict(last.yaml_data) /\ ~IsRaise(last.result)
        /\ Lower(parent_dir_name(last.file_path)) = "variables"
        /\ (HasDefinition(last.yaml_data) =>
               Rule1Predicate(last.yaml_data, last.file_path))) =>
        /\ IsVariableDescriptor(last.result) <=>
              Rule1Predicate(last.yaml_data, last.file_path)
        /\ IsVariableDescriptor(last.result) =>
              last.result.v.obj_id = Or(PyGet(last.yaml_data, "Name", None),
                                        Str("<UnnamedVariable>"))

(***************************************************************************)
(* Fuzzy matching against a store with malformed vectors, over             *)
(* SpecStoredVectors.                                                      *)
(***************************************************************************)
\* the rows whose stored vector can be compared
Comparable(rows) ==
    {i \in 1..Len(rows) : rows[i].emb.has /\ rows[i].emb # MalformedEmb}

SimilarityTo(fieldset, row) == sim[{fieldset, row.fields}]

\* C23: in a resolution with the embedding capability and no exact match,
\* against a catalog with at least one entry whose stored vector cannot be
\* compared, the other entries are still compared: the name returned is
\* that of a comparable entry of maximum similarity when that similarity is
\* at least 0.9 and the catalog is unchanged; otherwise a new type is
\* minted and persisted.  The resolution returns in every case.
C23_EmbeddingFailureIsolated ==
    (last.op = "resolve" /\ fuzzy_enabled
        /\ NoExactMatch(Lowered(last.fields), last.rows_before)
        /\ \E i \in 1..Len(last.rows_before) :
              last.rows_before[i].emb = MalformedEmb) =>
        LET rows == last.rows_before
            f == Lowered(last.fields)
            best == {i \in Comparable(rows) :
                        \A j \in Comparable(rows) :
                            SimilarityTo(f, rows[j]) <= SimilarityTo(f, rows[i])}
        IN  IF \E i \in best : SimilarityTo(f, rows[i]) >= THRESHOLD
            THEN /\ Catalog = rows
                 /\ \E i \in best : rows[i].type_name = last.name
            ELSE /\ \A i \in 1..Len(rows) : rows[i].type_name # last.name
                 /\ Catalog = Append(rows, [type_id   |-> Len(rows) + 1,
                                            type_name |-> last.name,
                                            fields    |-> f,
                                            emb       |-> Emb(f)])

\* the entry closest to the field set (0.95) has a malformed vector, the
\* other one is at 0.9: the resolution returns the other one's name
C23_Witness ==
    /\ last.op = "resolve"
    /\ fuzzy_enabled
    /\ Len(last.rows_before) = 2
    /\ NoExactMatch(Lowered(last.fields), last.rows_before)
    /\ Catalog = last.rows_before
    /\ last.rows_before[1].emb = MalformedEmb
    /\ SimilarityTo(Lowered(last.fields), last.rows_before[1]) = 9500
    /\ last.rows_before[2].emb # MalformedEmb
    /\ SimilarityTo(Lowered(last.fields), last.rows_before[2]) = 9000
    /\ last.name = last.rows_before[2].type_name

(***************************************************************************)
(* The order of units and aggregation, over Spec.                          *)
(***************************************************************************)
AllUnitsFinished == units_done = Len(app_folders)

\* C24: units are processed one at a time in discovery order, and while
\* some unit has not finished, the aggregate Repository holds no Entity and
\* no aggregate graph has been assembled.
C24_AggregationAfterAllUnits ==
    /\ pc = "unit" => app_name = app_folders[units_done + 1]
    /\ ~AllUnitsFinished => (aggregate_repo = <<>> /\ AggG = EmptyGraph)

\* the first of two units has been merged into the aggregate Repository
\* and the second one has not started
C24_Witness ==
    /\ Len(app_folders) = 2
    /\ units_done = 1
    /\ pc = "idle"
    /\ last.op = "finish_unit"
    /\ last.aggregate_before = <<>>
    /\ KeysOf(aggregate_repo) = {Str("M1"), Str("A")}

\* what holds of the order: one unit at a time in discovery order, and the
\* aggregate graph is assembled after the last unit only
AggregateGraphAfterAllUnits ==
    /\ pc = "unit" => (units_done < Len(app_folders) /\ app_name = app_folders[units_done + 1])
    /\ Len(aggregate_graph_nodes) = units_done
    /\ Len(aggregate_graph_edges) = units_done
    /\ pc # "done" => AggG = EmptyGraph
    /\ pc = "done" => AllUnitsFinished

(***************************************************************************)
(* The lifecycle of the catalog instances of a run, over Spec.             *)
(***************************************************************************)
\* C25: the per-unit catalog is closed once its unit has finished, every
\* catalog instance of the run, the aggregate one included, is closed when
\* the run has finished, and two open instances never have the same store
\* path.
C25_CatalogLifecycle ==
    /\ pc \in {"idle", "done"} => ~kb.open
    /\ pc = "done" => ~aggregate_kb.open
    /\ (kb.open /\ aggregate_kb.open) => kb.path # aggregate_kb.path

\* the run has finished its two units and the aggregate graph, the last
\* per-unit catalog is closed and the aggregate catalog is still open
C25_Witness ==
    /\ pc = "done"
    /\ units_done = 2
    /\ ~kb.open
    /\ aggregate_kb = [path |-> AGGREGATE_KB, open |-> TRUE]

\* what holds of the per-unit catalogs: one is open exactly while its unit
\* is being processed, on the store of that unit's folder name
PerUnitCatalogLifecycle ==
    /\ pc = "unit" => kb = [path |-> app_name, open |-> TRUE]
    /\ pc \in {"start", "exit", "idle", "done"} => ~kb.open

(***************************************************************************)
(* The expression of stored MasterMeasure Entities, over Spec.             *)
(***************************************************************************)
\* the attribute of an Entity that holds its expression, if it has one
ExpressionAttributes == {"expression", "definition"}

EntityAttributes ==
    {"obj_id", "node_type", "file_path", "fields", "depends_on", "raw_yaml"}

\* C26: after a "measure" document has been processed, every entry of its
\* measures list that has a definition text and a usable id not stored
\* before is stored as a MasterMeasure Entity whose expression is the
\* definition text of that entry.
C26_MeasureCarriesOwnExpression ==
    (last.op = "process" /\ ~last.raised /\ IsDict(last.input.yaml_data)
        /\ TypeTagOf(last.input.yaml_data) = Str("measure")
        /\ IsList(MeasuresListOf(last.input.yaml_data))) =>
        \A i \in 1..Len(MeasuresListOf(last.input.yaml_data).v) :
            LET m == MeasuresListOf(last.input.yaml_data).v[i]
            IN  (IsDict(m) /\ Usable(PyGet(m, "qDef", None)) /\ Usable(EntryId(m))
                    /\ ~has_key(last.repo_before, EntryId(m))) =>
                    /\ has_key(repo, EntryId(m))
                    /\ EntityOf(repo, EntryId(m)).node_type = "YAML_MasterMeasure"
                    /\ \E a \in ExpressionAttributes \cap DOMAIN EntityOf(repo, EntryId(m)) :
                          EntityOf(repo, EntryId(m))[a] = PyGet(m, "qDef", None)

\* the measures M1 = Sum(X) and A = Avg(Y) of one document are stored: the
\* descriptors carry the two definition texts, the Entities have no
\* attribute for them and both hold the whole document as raw_yaml
C26_Witness ==
    /\ last.op = "process"
    /\ ~last.raised
    /\ last.input.file_path = [dir |-> "Measures", base |-> "Measure.yaml"]
    /\ last.repo_before = <<>>
    /\ KeysOf(repo) = {Str("M1"), Str("A")}
    /\ extract_master_measure_info(last.input.yaml_data, last.input.file_path).v[1].definition
          = Str("Sum(X)")
    /\ extract_master_measure_info(last.input.yaml_data, last.input.file_path).v[2].definition
          = Str("Avg(Y)")
    /\ \A k \in KeysOf(repo) :
          /\ EntityOf(repo, k).node_type = "YAML_MasterMeasure"
          /\ DOMAIN EntityOf(repo, k) = EntityAttributes
          /\ EntityOf(repo, k).raw_yaml = last.input.yaml_data

(***************************************************************************)
(* Isolation of the per-unit catalogs of one run, over Spec (every store   *)
(* is empty when the run starts).                                          *)
(***************************************************************************)
\* C27: when a unit starts, the catalog it resolves against holds no type
\* minted while processing another unit of the run, whatever the folder
\* names of the units are.
C27_PerUnitCatalogIsolation ==
    (pc = "unit" /\ last.op = "start_unit") => Catalog = <<>>

\* two folders named AppA: the second unit starts on a catalog that holds
\* the type minted for a document of the first unit
C27_Witness ==
    /\ pc = "unit"
    /\ last.op = "start_unit"
    /\ app_folders = <<"AppA", "AppA">>
    /\ units_done = 1
    /\ Len(Catalog) = 1
    /\ Catalog[1].type_name = "UnknownType_1"
    /\ has_key(aggregate_repo, Str("A"))
    /\ EntityOf(aggregate_repo, Str("A")).node_type = "UnknownType_1"

\* what holds of the isolation: a store is written only by the units whose
\* folder has its name, so units with different folder names do not see
\* each other's types
StoresOfOtherNamesUntouched ==
    /\ \A p \in StorePaths :
          (\A i \in 1..Len(app_folders) :
              (i <= units_done \/ (i = units_done + 1 /\ pc \in {"unit", "crashed"}))
                  => app_folders[i] # p)
              => stores[p] = <<>>
    /\ (pc = "unit" /\ last.op = "start_unit"
            /\ \A i \in 1..units_done : app_folders[i] # app_name) => Catalog = <<>>

(***************************************************************************)
(* Type resolution and the insertion test, over SpecCreate.                *)
(***************************************************************************)
\* no entry of the catalog is an exact or a fuzzy match of the field set
NoMatch(fieldset, rows) ==
    /\ NoExactMatch(fieldset, rows)
    /\ fuzzy_enabled => \A i \in 1..Len(rows) : sim[{fieldset, rows[i].fields}] < THRESHOLD

NotInserted(info, objects) == ~Truthy(info.obj_id) \/ has_key(objects, info.obj_id)

\* C28: for a descriptor with a non-canonical provisional type whose field
\* set has no exact or fuzzy match, the catalog gains one entry for that
\* field set; when the descriptor's id is absent, empty or already a
\* Repository key, the Repository is left as it was all the same.
C28_ResolutionPrecedesInsertion ==
    (last.op = "create" /\ last.info.type_name \notin KNOWN_SCHEMAS
        /\ NoMatch(Lowered(last.info.fields), last.rows_before)) =>
        /\ Len(Catalog) = Len(last.rows_before) + 1
        /\ SubSeq(Catalog, 1, Len(last.rows_before)) = last.rows_before
        /\ Catalog[Len(Catalog)].fields = Lowered(last.info.fields)
        /\ NotInserted(last.info, last.repo_before) => repo = last.repo_before

\* a descriptor without an id, and one whose id is already a key, have
\* each added a type to the catalog while the Repository stayed as it was
C28_Witness ==
    /\ prev.op = "create"
    /\ prev.info.type_name = "YAML_Measures"
    /\ prev.info.obj_id = None
    /\ prev.rows_before = <<>>
    /\ last.repo_before = prev.repo_before
    /\ last.op = "create"
    /\ last.info.type_name = "YAML_Measures"
    /\ last.info.obj_id = Str("A")
    /\ has_key(last.repo_before, Str("A"))
    /\ EntityOf(last.repo_before, Str("A")).node_type = "YAML_Widget"
    /\ NoMatch(Lowered(last.info.fields), last.rows_before)
    /\ Len(last.rows_before) = 1
    /\ repo = last.repo_before
    /\ Len(repo) = 1
    /\ Len(Catalog) = 2
    /\ Catalog[2].type_name = "UnknownType_2"

(***************************************************************************)
(* Uniqueness in a catalog built by resolutions from an empty store, over  *)
(* SpecCatalog.                                                            *)
(***************************************************************************)
\* C29: in a catalog built by resolve calls from an empty store, no two
\* entries have the same name, no two entries have the same normalized
\* field set, every entry that was there before a resolve call is there
\* after it with the same name and field set, and the name the call
\* returned is the name of an entry of the catalog.
C29_CatalogUniqueness ==
    /\ \A i, j \in 1..Len(Catalog) :
          i # j => /\ Catalog[i].type_name # Catalog[j].type_name
                   /\ normalize(Catalog[i].fields) # normalize(Catalog[j].fields)
    /\ last.op = "resolve" =>
          /\ Len(Catalog) >= Len(last.rows_before)
          /\ \A i \in 1..Len(last.rows_before) :
                /\ Catalog[i].type_id = last.rows_before[i].type_id
                /\ Catalog[i].type_name = last.rows_before[i].type_name
                /\ Catalog[i].fields = last.rows_before[i].fields
          /\ \E i \in 1..Len(Catalog) : Catalog[i].type_name = last.name

\* three resolutions have minted three types for three field sets, the
\* last of them for a field list given in mixed case
C29_Witness ==
    /\ last.op = "resolve"
    /\ prev.op = "resolve"
    /\ Len(prev.rows_before) = 1
    /\ Len(last.rows_before) = 2
    /\ Len(Catalog) = 3
    /\ {Catalog[i].type_name : i \in 1..3} = {"UnknownType_1", "UnknownType_2", "UnknownType_3"}
    /\ {Catalog[i].fields : i \in 1..3} = FieldSets
    /\ last.fields = {"Title", "qDef"}
    /\ last.name = "UnknownType_3"

(***************************************************************************)
(* Well-formedness of the built graph, over SpecGraph.                     *)
(***************************************************************************)
NonEmptyKeys(objects) == {k \in KeysOf(objects) : Truthy(k)}

\* the non-empty dependency ids of the given objects
DependencyIds(objects, among) ==
    UNION {{Str(objects[i].depends_on[j]) :
                j \in {k \in 1..Len(objects[i].depends_on) : objects[i].depends_on[k] # ""}} :
            i \in among}

GraphEdgesWellFormed ==
    \A e \in G.edges : e[1] \in G.nodes /\ e[2] \in G.nodes /\ has_key(repo, e[1])

\* C30 (as stated): in the built graph both endpoints of every edge are
\* nodes, the source of every edge is a Repository key, the nodes are
\* exactly the non-empty keys and the non-empty dependency ids of the
\* Repository's Entities that are not keys, and the Repository is as it was.
C30_GraphWellFormedAllDependencies ==
    last.op = "build" =>
        /\ GraphEdgesWellFormed
        /\ G.nodes = NonEmptyKeys(repo)
                        \cup (DependencyIds(repo, 1..Len(repo)) \ KeysOf(repo))
        /\ repo = last.repo_before

\* C30 (amended): as above, with the dependency ids taken from the Entities
\* stored under a non-empty key only; what an Entity under an absent or
\* empty key references brings no node.
C30_GraphWellFormed ==
    last.op = "build" =>
        /\ GraphEdgesWellFormed
        /\ G.nodes = NonEmptyKeys(repo)
                        \cup (DependencyIds(repo, {i \in 1..Len(repo) : Truthy(repo[i].obj_id)})
                                \ KeysOf(repo))
        /\ repo = last.repo_before

\* a Repository with an Entity under the empty key that references X, and
\* the Entity B that references the missing A and itself: the graph has
\* the nodes A and B and the edge B -> A, and no node X
C30_Witness ==
    /\ last.op = "build"
    /\ Len(repo) = 2
    /\ \E i \in 1..2 : repo[i].obj_id = Str("") /\ repo[i].depends_on = <<"X">>
    /\ \E i \in 1..2 : repo[i].obj_id = Str("B") /\ repo[i].depends_on = <<"A", "">>
    /\ G.nodes = {Str("A"), Str("B")}
    /\ G.edges = {<<Str("B"), Str("A")>>}

====
